---------------------------- MODULE Spec2Model ----------------------------
(***************************************************************************)
(* State-machine model of the SnedBot moderation engine, starboard and tag *)
(* features.  Every handler is cut into steps at its await points: a step  *)
(* is the synchronous code that runs when the coroutine resumes, followed  *)
(* by the effect of the I/O call it then awaits.  Between two steps of one *)
(* handler the steps of every other handler, the scheduler and the         *)
(* platform may run.                                                       *)
(*                                                                         *)
(* Time is counted in whole seconds since the epoch, the unit in which the *)
(* timers' notes carry an expiry (str(round(duration.timestamp()))); the   *)
(* decimal text of the notes is represented by the integer it denotes.     *)
(*                                                                         *)
(* Each feature has its own specification over the shared variables:       *)
(*   SpecTimeout  timeout chunking (timeout, timeout_extend, rejoin,       *)
(*                removal of extensions)                                   *)
(***************************************************************************)
EXTENDS Integers, Sequences, FiniteSets, TLC

\* ------------------------------------------------------------------ bounds
\* Clock value of the initial state (seconds since the epoch).
StartTime == 1000
\* The clock advances at most MaxChunks ceilings plus MaxDrift seconds.
MaxChunks == 2
MaxDrift == 1
\* Number of /timeout commands issued in one behaviour.
MaxTimeoutCmds == 1
\* Number of ban commands issued in one behaviour, of concurrently running
\* ban calls, and of clock steps while they run.
MaxBanCmds == 3
MaxBanTasks == 2
MaxBanTicks == 2
\* Star reactions a message can collect, the guild's star_limit setting,
\* concurrently running starboard handlers, reaction events and commands.
MaxStars == 3
StarLimit == 2
MaxStarTasks == 2
MaxStarOps == 4
\* Concurrently running /tags commands, and /tags commands in all.
MaxTagTasks == 2
MaxTagOps == 3
\* /reminder create commands and button clicks in all.
MaxRemOps == 4
\* Embeds passed to log() in all, guild events in all, and the seconds the
\* logger's clock runs.
MaxEmbeds == 11
MaxLogEvents == 2
MaxLogTime == 11
\* Moderation events and audit log entries in all, and the seconds the
\* listeners' clock runs.
MaxModEvents == 1
MaxAuditEntries == 1
MaxAuditTime == 16
\* Moderation commands run in all.
MaxCmdRuns == 2
\* /rolebutton commands in all.
MaxRbOps == 2
\* Seconds the role button listener's clock runs.
MaxClickTime == 4
\* Concurrent handle_mod_buttons calls, and clicks in all.
MaxBtnTasks == 2
MaxBtnClicks == 3
\* /report commands in all.
MaxRepOps == 3
\* send_paginated calls in all.
MaxDevRuns == 4
\* Flags in a list, and get_diff calls in all.
MaxFlags == 2
MaxDiffRuns == 2
\* Button presses on one calculator.
MaxCalcPresses == 5
\* Embeds log() appends to the queue in all.
MaxQueued == 3
\* freeze_logging calls in all.
MaxFreezes == 4
\* Concurrent calls on the warn counter, and calls in all.
MaxWarnTasks == 2
MaxWarnOps == 4
\* Timers created and /reminder delete commands in all.
MaxDelOps == 4
\* /restore commands in all.
MaxRestores == 6

\* --------------------------------------------------------------- constants
MAX_TIMEOUT_SECONDS == 2246400

VARIABLES
    now,          \* helpers.utcnow(), in whole seconds
    timers,       \* rows of the timers table
    nextTimerId,  \* the table's auto-increment id
    cdu,          \* member.communication_disabled_until(); 0 is None
    inGuild,      \* the member is in the guild (member cache)
    canHarm,      \* helpers.can_harm(me, member, MODERATE_MEMBERS)
    dbFlags,      \* DatabaseUser.flags of the member's profile
    dbExpiry,     \* DatabaseUser.data["timeout_expiry"]; NoExpiry if absent
    tcmd,         \* the running ModActions.timeout call
    ext,          \* the running timeout_extend handler
    rj,           \* the running reapply_timeout_extensions handler
    rm,           \* the running remove_timeout_extensions handler
    cmds,         \* number of /timeout commands issued so far
    removalProcessed,  \* history: an observed removal of the timeout was
                       \* processed and no /timeout was issued since
    banned,       \* the user is banned from the guild
    bans,         \* the running ModActions.ban calls, by task
    banCmds,      \* number of ban commands issued so far
    stars,        \* star reactions on the original message
    sbChannel,    \* starboard settings.channel_id: "ok", "missing" (set, but
                  \* the channel is gone) or "unset" (null)
    entry,        \* the message's row of starboard_entries, or NoEntry
    showcase,     \* the bot's messages in the starboard channel
    nextMsgId,    \* id the platform gives the next message
    stask,        \* the running on_reaction / force_star calls, by task
    starOps,      \* number of reaction events and commands so far
    wasForced,    \* history: a row with force_starred = true was stored
    tagStore,     \* the guild's rows of the tags table, by tag name
    tagTask,      \* the running /tags commands, by task
    tagOps,       \* number of /tags commands so far
    remTimer,     \* the reminder's row of the timers table
    remCmd,       \* the running /reminder create, with its inputs
    remShown,     \* the confirmation with the "Remind me too!" button is up
    remJoin,      \* the running button handlers, by clicking user
    remFire,      \* the scheduler's dispatch of the reminder and on_reminder
    pinged,       \* users mentioned in the reminder's notification
    joined,       \* history: users told they were added while the reminder
                  \* was pending, and not told they were removed since
    remOps,       \* number of /reminder create commands and clicks so far
    logQueue,     \* UserLogger._queue[channel]: the embeds waiting to be sent
    nextEmbedId,  \* serial number of the next embed passed to log()
    flush,        \* UserLogger._iter_queue: its position and its chunks
    lastSent,     \* the embeds of the message the last step sent, if any
    delivered,    \* history: highest serial number delivered before lastSent
    logNow,       \* the event loop's clock, in seconds
    frozen,       \* the guild is in UserLogger._frozen_guilds
    unfreezeAt,   \* when the running unfreeze_logging wakes up, or Never
    handlers,     \* the userlog listeners asleep in find_auditlog_data
    logEvents,    \* number of guild events so far
    \* ---- later features
    auditNow,     \* the clock of the audit log listeners, in seconds
    auditCache,   \* client.audit_log_cache: the guild's entries about the user
    modTask,      \* the running userlog listener of a moderation event
    modEmbed,     \* the log embed the listener produced, or NoEmbed
    journal,      \* the user's journal entries, in the order appended
    modEvents,    \* number of gateway events so far
    cmdCall,      \* the moderation command being run, with the bot's state
    cmdError,     \* the exception the command ended with, or "none"
    cmdResponse,  \* the response of application_error_handler, or NoResponse
    cmdRuns,      \* number of commands run so far
    rbButton,     \* the row of the role button, or NoButton
    rbMessage,    \* the button as it shows on the live message, or NoButton
    rbCall,       \* the inputs of the /rolebutton command run last
    rbReply,      \* the title of that command's response
    rbOps,        \* number of /rolebutton commands so far
    clickNow,     \* the clock of the role button listener, in seconds
    acquired,     \* role_button_ratelimiter: the times of each member's acquisitions
    hasRole,      \* the member holds the button's role
    lastClick,    \* the click handled last and its answer
    btnDisabled,  \* the quick-action buttons shown as disabled, by action
    btnTask,      \* the running handle_mod_buttons calls, by task
    performed,    \* history: times each quick action was carried out
    prohibited,   \* history: a click by someone else was turned away
    btnClicks,    \* number of clicks so far
    repRow,       \* the guild's row of the reports table
    repCached,    \* db_cache: the cached copy of the row
    repChannel,   \* the configured reports channel is in the cache
    repCall,      \* what the /report run last found when it started
    repReply,     \* the response of that /report
    repError,     \* the exception that /report ended with, or "none"
    repSent,      \* reports sent to the reports channel so far
    repOps,       \* number of /report commands so far
    devInput,     \* the arguments of the send_paginated call made last
    devSent,      \* the messages that call sent, in order
    devChannel,   \* number of messages in the channel and in the DM so far
    devRuns,      \* number of send_paginated calls so far
    diffInput,    \* the old and the new value of the attribute passed to get_diff
    diffRendered, \* get_diff put the attribute into its result
    diffRuns,     \* number of get_diff calls so far
    calcBuf,      \* CalculatorView._buf, the characters of its joined strings
    calcAns,      \* CalculatorView._ans
    calcClearNext, \* CalculatorView._clear_next
    calcScreen,   \* the content of the calculator message, without its code fence
    calcKey,      \* the value of the last AddBufButton pressed
    calcExpr,     \* the string the last evaluation handed to the Solver
    calcChain,    \* the answer of the last evaluation while only AddBufButtons were pressed since
    calcPresses,  \* number of button presses so far
    tttSize,      \* TicTacToeView.size
    tttBoard,     \* TicTacToeView.board: rows of -1 (X), 0 (free) and 1 (O)
    tttCurrent,   \* TicTacToeView.current_player
    tttWinner,    \* what the last callback declared: "none", "X", "O" or "tie"
    tttDisabled,  \* the cells <<y, x>> whose button is disabled
    tttLast,      \* the cell of the preceding move, whose disabling a client may not have seen
    qKeys,        \* the keys of UserLogger._queue in insertion order
    qQueue,       \* UserLogger._queue: the list of embeds of each channel
    qLoop,        \* _iter_queue: asleep, suspended in create_message, or ended
    qAttempts,    \* for each embed, the number of create_message calls it was part of
    qAccepted,    \* number of embeds log() has appended so far
    fzGuilds,     \* UserLogger._frozen_guilds, as a set
    fzOps,        \* where each freezing operation stands, and the guild it froze
    fzRuns,       \* number of freeze_logging calls so far
    warnStored,   \* the warns column of the member's profile row
    warnTasks,    \* the running warn, remove_warn and clear_warns calls, each with the db_user it fetched
    warnsDone,    \* number of warn calls that have written their update
    unwarnsBegun, \* number of remove_warn and clear_warns calls begun
    warnOps,      \* number of calls begun so far
    rdTimers,     \* the rows of the timers table of one guild
    rdCall,       \* the last /reminder delete: its invoker and the id given
    rdReply,      \* the response to it
    rdOps,        \* number of timers created and /reminder delete commands so far
    cacheRunning, \* db_cache is started
    botRunning,   \* app.close() has not been called
    schedRestarts, \* number of scheduler.restart() calls
    rsCall,       \* the last /restore: its file name, ignore_errors and the exit code of pg_restore
    rsReply,      \* the response to it
    rsRuns,       \* number of /restore commands so far
    step          \* history: the outcome of the step taken last, for the
                  \* steps the properties speak about ("other" for the rest)

timeoutVars == <<now, timers, nextTimerId, cdu, inGuild, canHarm, dbFlags,
                 dbExpiry, tcmd, ext, rj, rm, cmds, removalProcessed>>

\* The variables of the timeout feature that no other feature touches.
memberVars == <<cdu, inGuild, canHarm, dbFlags, dbExpiry, tcmd, ext, rj, rm, cmds,
                removalProcessed>>

banVars == <<banned, bans, banCmds>>

starVars == <<stars, sbChannel, entry, showcase, nextMsgId, stask, starOps, wasForced>>

tagVars == <<tagStore, tagTask, tagOps>>

remVars == <<remTimer, remCmd, remShown, remJoin, remFire, pinged, joined, remOps>>

logVars == <<logQueue, nextEmbedId, flush, lastSent, delivered, logNow, frozen,
             unfreezeAt, handlers, logEvents>>

\* The variables of the later features.
auditVars == <<auditNow, auditCache, modTask, modEmbed, journal, modEvents>>

errVars == <<cmdCall, cmdError, cmdResponse, cmdRuns>>

rbVars == <<rbButton, rbMessage, rbCall, rbReply, rbOps>>

clickVars == <<clickNow, acquired, hasRole, lastClick>>

btnVars == <<btnDisabled, btnTask, performed, prohibited, btnClicks>>

repVars == <<repRow, repCached, repChannel, repCall, repReply, repError, repSent, repOps>>

devVars == <<devInput, devSent, devChannel, devRuns>>

diffVars == <<diffInput, diffRendered, diffRuns>>

calcVars == <<calcBuf, calcAns, calcClearNext, calcScreen, calcKey, calcExpr, calcChain, calcPresses>>

tttVars == <<tttSize, tttBoard, tttCurrent, tttWinner, tttDisabled, tttLast>>

queueVars == <<qKeys, qQueue, qLoop, qAttempts, qAccepted>>

freezeVars == <<fzGuilds, fzOps, fzRuns>>

warnVars == <<warnStored, warnTasks, warnsDone, unwarnsBegun, warnOps>>

remdelVars == <<rdTimers, rdCall, rdReply, rdOps>>

restoreVars == <<cacheRunning, botRunning, schedRestarts, rsCall, rsReply, rsRuns>>

laterVars == <<auditVars, errVars, rbVars, clickVars, btnVars, repVars, devVars, diffVars, calcVars, tttVars, queueVars, freezeVars, warnVars, remdelVars, restoreVars>>

notAuditVars == <<timeoutVars, banVars, starVars, tagVars, remVars, logVars, errVars, rbVars, clickVars, btnVars, repVars, devVars, diffVars, calcVars, tttVars, queueVars, freezeVars, warnVars, remdelVars, restoreVars>>
notErrVars == <<timeoutVars, banVars, starVars, tagVars, remVars, logVars, auditVars, rbVars, clickVars, btnVars, repVars, devVars, diffVars, calcVars, tttVars, queueVars, freezeVars, warnVars, remdelVars, restoreVars>>
notRbVars == <<timeoutVars, banVars, starVars, tagVars, remVars, logVars, auditVars, errVars, clickVars, btnVars, repVars, devVars, diffVars, calcVars, tttVars, queueVars, freezeVars, warnVars, remdelVars, restoreVars>>
notClickVars == <<timeoutVars, banVars, starVars, tagVars, remVars, logVars, auditVars, errVars, rbVars, btnVars, repVars, devVars, diffVars, calcVars, tttVars, queueVars, freezeVars, warnVars, remdelVars, restoreVars>>
notBtnVars == <<timeoutVars, banVars, starVars, tagVars, remVars, logVars, auditVars, errVars, rbVars, clickVars, repVars, devVars, diffVars, calcVars, tttVars, queueVars, freezeVars, warnVars, remdelVars, restoreVars>>
notRepVars == <<timeoutVars, banVars, starVars, tagVars, remVars, logVars, auditVars, errVars, rbVars, clickVars, btnVars, devVars, diffVars, calcVars, tttVars, queueVars, freezeVars, warnVars, remdelVars, restoreVars>>
notDevVars == <<timeoutVars, banVars, starVars, tagVars, remVars, logVars, auditVars, errVars, rbVars, clickVars, btnVars, repVars, diffVars, calcVars, tttVars, queueVars, freezeVars, warnVars, remdelVars, restoreVars>>
notDiffVars == <<timeoutVars, banVars, starVars, tagVars, remVars, logVars, auditVars, errVars, rbVars, clickVars, btnVars, repVars, devVars, calcVars, tttVars, queueVars, freezeVars, warnVars, remdelVars, restoreVars>>
notCalcVars == <<timeoutVars, banVars, starVars, tagVars, remVars, logVars, auditVars, errVars, rbVars, clickVars, btnVars, repVars, devVars, diffVars, tttVars, queueVars, freezeVars, warnVars, remdelVars, restoreVars>>
notTttVars == <<timeoutVars, banVars, starVars, tagVars, remVars, logVars, auditVars, errVars, rbVars, clickVars, btnVars, repVars, devVars, diffVars, calcVars, queueVars, freezeVars, warnVars, remdelVars, restoreVars>>
notQueueVars == <<timeoutVars, banVars, starVars, tagVars, remVars, logVars, auditVars, errVars, rbVars, clickVars, btnVars, repVars, devVars, diffVars, calcVars, tttVars, freezeVars, warnVars, remdelVars, restoreVars>>
notFreezeVars == <<timeoutVars, banVars, starVars, tagVars, remVars, logVars, auditVars, errVars, rbVars, clickVars, btnVars, repVars, devVars, diffVars, calcVars, tttVars, queueVars, warnVars, remdelVars, restoreVars>>
notWarnVars == <<timeoutVars, banVars, starVars, tagVars, remVars, logVars, auditVars, errVars, rbVars, clickVars, btnVars, repVars, devVars, diffVars, calcVars, tttVars, queueVars, freezeVars, remdelVars, restoreVars>>
notRemdelVars == <<timeoutVars, banVars, starVars, tagVars, remVars, logVars, auditVars, errVars, rbVars, clickVars, btnVars, repVars, devVars, diffVars, calcVars, tttVars, queueVars, freezeVars, warnVars, restoreVars>>
notRestoreVars == <<timeoutVars, banVars, starVars, tagVars, remVars, logVars, auditVars, errVars, rbVars, clickVars, btnVars, repVars, devVars, diffVars, calcVars, tttVars, queueVars, freezeVars, warnVars, remdelVars>>

vars == <<timeoutVars, banVars, starVars, tagVars, remVars, logVars, laterVars, step>>

\* What the steps of one feature leave alone.
notTimeoutVars == <<banVars, starVars, tagVars, remVars, logVars, laterVars>>
notBanVars == <<memberVars, starVars, tagVars, remVars, logVars, laterVars>>
notStarVars == <<timeoutVars, banVars, tagVars, remVars, logVars, laterVars>>
notTagVars == <<timeoutVars, banVars, starVars, remVars, logVars, laterVars>>
notRemVars == <<timeoutVars, banVars, starVars, tagVars, logVars, laterVars>>
notLogVars == <<timeoutVars, banVars, starVars, tagVars, remVars, laterVars>>

\* ------------------------------------------------------------------ timers
Member == "u1"
TIMEOUT_EXTEND == "timeout_extend"
TEMPBAN == "tempban"

NoTimer == [id |-> 0, event |-> "none", user |-> "none", expires |-> 0, notes |-> 0]

\* Scheduler.create_timer: inserts a row and hands out the next id.
NewTimer(id, expires, event, user, notes) ==
    [id |-> id, event |-> event, user |-> user, expires |-> expires, notes |-> notes]

\* SELECT ... FROM timers WHERE guild_id = $1 AND user_id = $2 AND event = $3
TimersOf(user, event) == {t \in timers : t.user = user /\ t.event = event}

TimerIds(S) == {t.id : t \in S}

\* Scheduler.cancel_timer: deletes the row with this id.
WithoutTimer(id) == {t \in timers : t.id # id}

TimerExists(id) == \E t \in timers : t.id = id

\* ------------------------------------------------------- timeout chunking
\* DatabaseUserFlag
TIMEOUT_ON_JOIN == "TIMEOUT_ON_JOIN"
NoExpiry == -1

\* enum.Flag ^ : the flags set in exactly one of the operands
FlagXor(a, b) == (a \ b) \cup (b \ a)

\* Mutation: the ceiling itself already counts as too long.
NeedsChunkInclusive(expiry, t) == expiry - t >= MAX_TIMEOUT_SECONDS

\* expiry - helpers.utcnow().timestamp() > MAX_TIMEOUT_SECONDS
NeedsChunk(expiry, t) == expiry - t > MAX_TIMEOUT_SECONDS

\* helpers.utcnow() + datetime.timedelta(seconds=MAX_TIMEOUT_SECONDS)
ChunkEnd(t) == t + MAX_TIMEOUT_SECONDS

\* timeout_extend, terminal chunk:
\* helpers.utcnow() + timedelta(seconds=expiry - round(helpers.utcnow().timestamp()))
FinalChunkEnd(expiry, t) == t + (expiry - t)

\* reapply_timeout_extensions, terminal chunk:
\* helpers.utcnow() + datetime.timedelta(seconds=expiry)
RejoinChunkEnd(expiry, t) == t + expiry

\* Durations a moderator asks for, in seconds from the moment of the command.
Durations == {MAX_TIMEOUT_SECONDS, MAX_TIMEOUT_SECONDS + 1,
              2 * MAX_TIMEOUT_SECONDS, 2 * MAX_TIMEOUT_SECONDS + 1}

\* Mutation: a duration of exactly the ceiling is chunked as well.
TimeoutNeedsChunkInclusive(duration, t) == duration >= t + MAX_TIMEOUT_SECONDS

\* duration > helpers.utcnow() + datetime.timedelta(seconds=MAX_TIMEOUT_SECONDS)
TimeoutNeedsChunk(duration, t) == duration > t + MAX_TIMEOUT_SECONDS

IdleTimeout == [pc |-> "idle", duration |-> 0]
IdleExtend == [pc |-> "idle", timer |-> NoTimer, flags |-> {}]
IdleRejoin == [pc |-> "idle", flags |-> {}, data |-> NoExpiry, expiry |-> 0]
IdleRemove == [pc |-> "idle", pending |-> {}]

\* The timeout feature at rest: no timeout, no timer, no handler running.
TimeoutAtRest ==
    /\ now = StartTime
    /\ timers = {}
    /\ nextTimerId = 1
    /\ cdu = 0
    /\ inGuild = TRUE
    /\ canHarm = TRUE
    /\ dbFlags = {}
    /\ dbExpiry = NoExpiry
    /\ tcmd = IdleTimeout
    /\ ext = IdleExtend
    /\ rj = IdleRejoin
    /\ rm = IdleRemove
    /\ cmds = 0
    /\ removalProcessed = FALSE

\* The clock advances by a second at any moment, and while no handler is
\* between two of its awaits by a whole ceiling, or by a second less to the
\* instant a timer is due.
TickSteps == {1, MAX_TIMEOUT_SECONDS - 1, MAX_TIMEOUT_SECONDS}

AllIdle == tcmd.pc = "idle" /\ ext.pc = "idle" /\ rj.pc = "idle" /\ rm.pc = "idle"

Tick ==
    /\ UNCHANGED notTimeoutVars
    /\ \E delta \in TickSteps :
         /\ delta > 1 => AllIdle
         /\ delta = MAX_TIMEOUT_SECONDS - 1 => \E t \in timers : t.expires = now + delta
         /\ now + delta <= StartTime + MaxChunks * MAX_TIMEOUT_SECONDS + MaxDrift
         /\ (now + delta - StartTime) % MAX_TIMEOUT_SECONDS <= MaxDrift
         /\ now' = now + delta
    /\ step' = "other"
    /\ UNCHANGED <<timers, nextTimerId, cdu, inGuild, canHarm, dbFlags, dbExpiry,
                   tcmd, ext, rj, rm, cmds, removalProcessed>>

\* member.communication_disabled_until() is not None: the field is set and
\* lies in the future.
TimedOut == cdu > now

\* member.edit(communication_disabled_until=until): the platform call either
\* sets the field or raises; it cannot succeed on a member who has left.
MemberEdit(until, ok) ==
    /\ ok => inGuild
    /\ cdu' = IF ok THEN until ELSE cdu

\* /timeout on a member who is not timed out, then ModActions.timeout up to
\* its first completed await: can_harm(raise_error=True), then create_timer
\* (chunked) or member.edit (direct).
TimeoutBegin ==
    /\ UNCHANGED notTimeoutVars
    /\ tcmd.pc = "idle"
    /\ inGuild
    /\ ~TimedOut
    /\ cmds < MaxTimeoutCmds
    /\ cmds' = cmds + 1
    /\ removalProcessed' = FALSE
    /\ \E d \in Durations, ok \in BOOLEAN :
         LET duration == now + d IN
         IF ~canHarm
         THEN /\ step' = "other"
              /\ UNCHANGED <<timers, nextTimerId, cdu, tcmd>>
         ELSE IF TimeoutNeedsChunk(duration, now)
         THEN /\ timers' = timers \cup
                     {NewTimer(nextTimerId, ChunkEnd(now), TIMEOUT_EXTEND, Member, duration)}
              /\ nextTimerId' = nextTimerId + 1
              /\ tcmd' = [pc |-> "edit", duration |-> duration]
              /\ step' = "TimeoutTimer"
              /\ UNCHANGED cdu
         ELSE /\ MemberEdit(duration, ok)
              /\ tcmd' = [pc |-> "idle", duration |-> IF ok THEN duration ELSE 0]
              /\ step' = IF ok THEN "TimeoutDirect" ELSE "TimeoutFailed"
              /\ UNCHANGED <<timers, nextTimerId>>
    /\ UNCHANGED <<now, inGuild, canHarm, dbFlags, dbExpiry, ext, rj, rm>>

\* ModActions.timeout, chunked branch: member.edit after create_timer returned.
TimeoutEdit ==
    /\ UNCHANGED notTimeoutVars
    /\ tcmd.pc = "edit"
    /\ \E ok \in BOOLEAN :
         /\ MemberEdit(ChunkEnd(now), ok)
         /\ step' = IF ok THEN "TimeoutChunk" ELSE "TimeoutFailed"
    /\ tcmd' = IdleTimeout
    /\ UNCHANGED <<now, timers, nextTimerId, inGuild, canHarm, dbFlags, dbExpiry,
                   ext, rj, rm, cmds, removalProcessed>>


\* The scheduler's polling loop: a due timer is deleted on pickup and a
\* TimerCompleteEvent carrying it is dispatched to timeout_extend.
Fire ==
    /\ UNCHANGED notTimeoutVars
    /\ ext.pc = "idle"
    /\ \E t \in TimersOf(Member, TIMEOUT_EXTEND) :
         /\ t.expires <= now
         /\ timers' = WithoutTimer(t.id)
         /\ ext' = [pc |-> "start", timer |-> t, flags |-> {}]
    /\ step' = "other"
    /\ UNCHANGED <<now, nextTimerId, cdu, inGuild, canHarm, dbFlags, dbExpiry,
                   tcmd, rj, rm, cmds, removalProcessed>>

\* ModActions.timeout_extend up to its first completed await.
ExtStart ==
    /\ UNCHANGED notTimeoutVars
    /\ ext.pc = "start"
    /\ LET expiry == ext.timer.notes IN
       IF inGuild
       THEN IF ~canHarm
            THEN /\ ext' = IdleExtend
                 /\ step' = "other"
                 /\ UNCHANGED <<timers, nextTimerId, cdu>>
            ELSE IF NeedsChunk(expiry, now)
            THEN /\ timers' = timers \cup
                        {NewTimer(nextTimerId, ChunkEnd(now), TIMEOUT_EXTEND, Member,
                                  ext.timer.notes)}
                 /\ nextTimerId' = nextTimerId + 1
                 /\ ext' = [ext EXCEPT !.pc = "edit"]
                 /\ step' = "ExtTimer"
                 /\ UNCHANGED cdu
            ELSE /\ \E ok \in BOOLEAN :
                      /\ MemberEdit(FinalChunkEnd(expiry, now), ok)
                      /\ step' = IF ok THEN "ExtFinal" ELSE "ExtFailed"
                 /\ ext' = [ext EXCEPT !.pc = "idle"]
                 /\ UNCHANGED <<timers, nextTimerId>>
       ELSE \* DatabaseUser.fetch
            /\ ext' = [ext EXCEPT !.pc = "stash", !.flags = dbFlags]
            /\ step' = "other"
            /\ UNCHANGED <<timers, nextTimerId, cdu>>
    /\ UNCHANGED <<now, inGuild, canHarm, dbFlags, dbExpiry, tcmd, rj, rm, cmds,
                   removalProcessed>>

\* timeout_extend, chunked branch: member.edit after create_timer returned.
ExtEdit ==
    /\ UNCHANGED notTimeoutVars
    /\ ext.pc = "edit"
    /\ \E ok \in BOOLEAN :
         /\ MemberEdit(ChunkEnd(now), ok)
         /\ step' = IF ok THEN "ExtChunk" ELSE "ExtFailed"
    /\ ext' = [ext EXCEPT !.pc = "idle"]
    /\ UNCHANGED <<now, timers, nextTimerId, inGuild, canHarm, dbFlags, dbExpiry,
                   tcmd, rj, rm, cmds, removalProcessed>>

\* timeout_extend, member absent: stash the expiry on the profile.
ExtStash ==
    /\ UNCHANGED notTimeoutVars
    /\ ext.pc = "stash"
    /\ IF FlagXor({TIMEOUT_ON_JOIN}, ext.flags) # {}
       THEN /\ dbFlags' = ext.flags \cup {TIMEOUT_ON_JOIN}
            /\ dbExpiry' = ext.timer.notes
       ELSE UNCHANGED <<dbFlags, dbExpiry>>
    /\ ext' = [ext EXCEPT !.pc = "idle"]
    /\ step' = "other"
    /\ UNCHANGED <<now, timers, nextTimerId, cdu, inGuild, canHarm, tcmd, rj, rm,
                   cmds, removalProcessed>>

\* The member leaves the guild.
MemberLeave ==
    /\ UNCHANGED notTimeoutVars
    /\ inGuild
    /\ inGuild' = FALSE
    /\ step' = "other"
    /\ UNCHANGED <<now, timers, nextTimerId, cdu, canHarm, dbFlags, dbExpiry,
                   tcmd, ext, rj, rm, cmds, removalProcessed>>

\* The member joins again: hikari.MemberCreateEvent is dispatched.
MemberJoin ==
    /\ UNCHANGED notTimeoutVars
    /\ ~inGuild
    /\ rj.pc = "idle"
    /\ inGuild' = TRUE
    /\ rj' = [IdleRejoin EXCEPT !.pc = "start"]
    /\ step' = "other"
    /\ UNCHANGED <<now, timers, nextTimerId, cdu, canHarm, dbFlags, dbExpiry,
                   tcmd, ext, rm, cmds, removalProcessed>>

\* reapply_timeout_extensions: can_harm, then DatabaseUser.fetch.
RjStart ==
    /\ UNCHANGED notTimeoutVars
    /\ rj.pc = "start"
    /\ IF ~canHarm
       THEN /\ rj' = IdleRejoin
            /\ step' = "other"
       ELSE /\ rj' = [rj EXCEPT !.pc = "fetched", !.flags = dbFlags, !.data = dbExpiry]
            /\ step' = "other"
    /\ UNCHANGED <<now, timers, nextTimerId, cdu, inGuild, canHarm, dbFlags,
                   dbExpiry, tcmd, ext, rm, cmds, removalProcessed>>

\* reapply_timeout_extensions: the flag test, data.pop and db_user.update().
RjUpdate ==
    /\ UNCHANGED notTimeoutVars
    /\ rj.pc = "fetched"
    /\ IF FlagXor(rj.flags, {TIMEOUT_ON_JOIN}) # {}
       THEN /\ rj' = IdleRejoin
            /\ step' = "other"
            /\ UNCHANGED <<dbFlags, dbExpiry>>
       ELSE /\ rj' = [rj EXCEPT !.pc = "apply",
                                !.expiry = IF rj.data = NoExpiry THEN 0 ELSE rj.data]
            /\ dbFlags' = FlagXor(rj.flags, {TIMEOUT_ON_JOIN})
            /\ dbExpiry' = NoExpiry
            /\ step' = "other"
    /\ UNCHANGED <<now, timers, nextTimerId, cdu, inGuild, canHarm, tcmd, ext, rm,
                   cmds, removalProcessed>>

\* reapply_timeout_extensions after db_user.update(): drop, chunk or apply.
RjApply ==
    /\ UNCHANGED notTimeoutVars
    /\ rj.pc = "apply"
    /\ IF rj.expiry - now < 0
       THEN /\ rj' = [rj EXCEPT !.pc = "idle"]
            /\ step' = "RjPast"
            /\ UNCHANGED <<timers, nextTimerId, cdu>>
       ELSE IF NeedsChunk(rj.expiry, now)
       THEN /\ timers' = timers \cup
                   {NewTimer(nextTimerId, ChunkEnd(now), TIMEOUT_EXTEND, Member, rj.expiry)}
            /\ nextTimerId' = nextTimerId + 1
            /\ rj' = [rj EXCEPT !.pc = "edit"]
            /\ step' = "RjTimer"
            /\ UNCHANGED cdu
       ELSE /\ \E ok \in BOOLEAN :
                 /\ MemberEdit(RejoinChunkEnd(rj.expiry, now), ok)
                 /\ step' = IF ok THEN "RjFinal" ELSE "RjFailed"
            /\ rj' = [rj EXCEPT !.pc = "idle"]
            /\ UNCHANGED <<timers, nextTimerId>>
    /\ UNCHANGED <<now, inGuild, canHarm, dbFlags, dbExpiry, tcmd, ext, rm, cmds,
                   removalProcessed>>

\* reapply_timeout_extensions, chunked branch: member.edit after create_timer.
RjEdit ==
    /\ UNCHANGED notTimeoutVars
    /\ rj.pc = "edit"
    /\ \E ok \in BOOLEAN :
         /\ MemberEdit(ChunkEnd(now), ok)
         /\ step' = IF ok THEN "RjChunk" ELSE "RjFailed"
    /\ rj' = [rj EXCEPT !.pc = "idle"]
    /\ UNCHANGED <<now, timers, nextTimerId, inGuild, canHarm, dbFlags, dbExpiry,
                   tcmd, ext, rm, cmds, removalProcessed>>

\* A moderator removes the member's timeout (ModActions.remove_timeout or the
\* platform's own interface); the MemberUpdateEvent reaches
\* remove_timeout_extensions with old != new and new = None.
RemoveTimeout ==
    /\ UNCHANGED notTimeoutVars
    /\ inGuild
    /\ TimedOut
    /\ rm.pc = "idle"
    /\ cdu' = 0
    /\ rm' = [IdleRemove EXCEPT !.pc = "start"]
    /\ step' = "other"
    /\ UNCHANGED <<now, timers, nextTimerId, inGuild, canHarm, dbFlags, dbExpiry,
                   tcmd, ext, rj, cmds, removalProcessed>>

\* remove_timeout_extensions: the SELECT of the member's timeout_extend rows.
RmFetch ==
    /\ UNCHANGED notTimeoutVars
    /\ rm.pc = "start"
    /\ LET ids == TimerIds(TimersOf(Member, TIMEOUT_EXTEND)) IN
       IF ids = {}
       THEN /\ rm' = IdleRemove
            /\ removalProcessed' = TRUE
            /\ step' = "other"
       ELSE /\ rm' = [pc |-> "cancel", pending |-> ids]
            /\ step' = "other"
            /\ UNCHANGED removalProcessed
    /\ UNCHANGED <<now, timers, nextTimerId, cdu, inGuild, canHarm, dbFlags,
                   dbExpiry, tcmd, ext, rj, cmds>>

\* remove_timeout_extensions: one cancel_timer of the loop over the records;
\* cancel_timer raises ValueError when the row is gone, which ends the handler.
RmCancel ==
    /\ UNCHANGED notTimeoutVars
    /\ rm.pc = "cancel"
    /\ \E id \in rm.pending :
         IF TimerExists(id)
         THEN /\ timers' = WithoutTimer(id)
              /\ IF rm.pending = {id}
                 THEN /\ rm' = IdleRemove
                      /\ removalProcessed' = TRUE
                      /\ step' = "other"
                 ELSE /\ rm' = [rm EXCEPT !.pending = rm.pending \ {id}]
                      /\ step' = "other"
                      /\ UNCHANGED removalProcessed
         ELSE /\ rm' = IdleRemove
              /\ step' = "other"
              /\ UNCHANGED <<timers, removalProcessed>>
    /\ UNCHANGED <<now, nextTimerId, cdu, inGuild, canHarm, dbFlags, dbExpiry,
                   tcmd, ext, rj, cmds>>

\* Roles or permissions change: the bot gains or loses the ability to punish.
ToggleCanHarm ==
    /\ UNCHANGED notTimeoutVars
    /\ canHarm' = ~canHarm
    /\ step' = "other"
    /\ UNCHANGED <<now, timers, nextTimerId, cdu, inGuild, dbFlags, dbExpiry,
                   tcmd, ext, rj, rm, cmds, removalProcessed>>

\* ------------------------------------------------------------------- bans
BanTasks == 1 .. MaxBanTasks

\* Expiries a moderator asks for, in seconds from the moment of the command.
BanDurations == {10, 20}
BanTickStep == 10

IdleBan == [pc |-> "idle", kind |-> "none", duration |-> 0, record |-> 0]

BanAtRest ==
    /\ banned = FALSE
    /\ bans = [b \in BanTasks |-> IdleBan]
    /\ banCmds = 0

\* Where ModActions.ban continues once the old timer is dealt with: a plain
\* ban has nothing left to await.
AfterCancel(task) ==
    IF task.kind = "ban" THEN IdleBan ELSE [task EXCEPT !.pc = "finish"]

\* ModActions.ban up to rest.ban_user: the permission and hierarchy checks
\* raise, a failed platform call returns the failure embed.
BanBegin(b) ==
    /\ UNCHANGED notBanVars
    /\ bans[b].pc = "idle"
    /\ banCmds < MaxBanCmds
    /\ banCmds' = banCmds + 1
    /\ \E kind \in {"ban", "soft", "temp"}, d \in BanDurations,
          allowed \in BOOLEAN, ok \in BOOLEAN :
         IF ~allowed \/ ~ok
         THEN /\ step' = "other"
              /\ UNCHANGED <<banned, bans>>
         ELSE /\ banned' = TRUE
              /\ bans' = [bans EXCEPT ![b] =
                            [pc |-> "fetch", kind |-> kind,
                             duration |-> IF kind = "temp" THEN now + d ELSE 0,
                             record |-> 0]]
              /\ step' = "other"
    /\ UNCHANGED <<now, timers, nextTimerId>>

\* ModActions.ban: db.fetchrow returns one of the user's tempban rows, if any.
BanFetch(b) ==
    /\ UNCHANGED notBanVars
    /\ bans[b].pc = "fetch"
    /\ IF TimersOf(Member, TEMPBAN) = {}
       THEN bans' = [bans EXCEPT ![b] = AfterCancel(bans[b])]
       ELSE \E t \in TimersOf(Member, TEMPBAN) :
              bans' = [bans EXCEPT ![b] = [bans[b] EXCEPT !.pc = "cancel", !.record = t.id]]
    /\ step' = "other"
    /\ UNCHANGED <<now, timers, nextTimerId, banned, banCmds>>

\* ModActions.ban: cancel_timer of the fetched row; its ValueError for a row
\* that is gone is not caught and ends the call.
BanCancel(b) ==
    /\ UNCHANGED notBanVars
    /\ bans[b].pc = "cancel"
    /\ IF TimerExists(bans[b].record)
       THEN /\ timers' = WithoutTimer(bans[b].record)
            /\ bans' = [bans EXCEPT ![b] = AfterCancel(bans[b])]
       ELSE /\ bans' = [bans EXCEPT ![b] = IdleBan]
            /\ UNCHANGED timers
    /\ step' = "other"
    /\ UNCHANGED <<now, nextTimerId, banned, banCmds>>

\* ModActions.ban: the softban's unban_user or the tempban's create_timer.
BanFinish(b) ==
    /\ UNCHANGED notBanVars
    /\ bans[b].pc = "finish"
    /\ IF bans[b].kind = "soft"
       THEN /\ \E ok \in BOOLEAN : banned' = IF ok THEN FALSE ELSE banned
            /\ step' = "other"
            /\ UNCHANGED <<timers, nextTimerId>>
       ELSE /\ timers' = timers \cup
                   {NewTimer(nextTimerId, bans[b].duration, TEMPBAN, Member, 0)}
            /\ nextTimerId' = nextTimerId + 1
            /\ step' = "TempbanDone"
            /\ UNCHANGED banned
    /\ bans' = [bans EXCEPT ![b] = IdleBan]
    /\ UNCHANGED <<now, banCmds>>

\* The scheduler picks up a due tempban timer and tempban_expire unbans the
\* user; a failing unban is only logged.
TempbanExpire ==
    /\ UNCHANGED notBanVars
    /\ \E t \in TimersOf(Member, TEMPBAN), ok \in BOOLEAN :
         /\ t.expires <= now
         /\ timers' = WithoutTimer(t.id)
         /\ banned' = IF ok THEN FALSE ELSE banned
    /\ step' = "other"
    /\ UNCHANGED <<now, nextTimerId, bans, banCmds>>

\* ModActions.unban: lifts the ban; the tempban timer stays.
Unban ==
    /\ UNCHANGED notBanVars
    /\ banned
    /\ banned' = FALSE
    /\ step' = "other"
    /\ UNCHANGED <<now, timers, nextTimerId, bans, banCmds>>

BanTick ==
    /\ UNCHANGED notBanVars
    /\ now + BanTickStep <= StartTime + MaxBanTicks * BanTickStep
    /\ now' = now + BanTickStep
    /\ step' = "other"
    /\ UNCHANGED <<timers, nextTimerId, banned, bans, banCmds>>

\* -------------------------------------------------------------- starboard
StarTasks == 1 .. MaxStarTasks

NoEntry == [msg |-> 0, forced |-> FALSE]

IdleStar == [pc |-> "idle", cmd |-> "none", stars |-> 0, force |-> FALSE,
             ent |-> NoEntry, posted |-> 0, recovering |-> FALSE]

StarAtRest ==
    /\ stars = 0
    /\ sbChannel = "ok"
    /\ entry = NoEntry
    /\ showcase = {}
    /\ nextMsgId = 1
    /\ stask = [t \in StarTasks |-> IdleStar]
    /\ starOps = 0
    /\ wasForced = FALSE

\* star_message.is_starrable
IsStarrable(count, force) == count >= StarLimit \/ force

\* create_starboard_payload: the star count and the "(Forced)" mark.
Payload(id, count, force) == [id |-> id, stars |-> count, forced |-> force]

ShowcaseIds == {m.id : m \in showcase}

\* The end of a call: force_star answers "Message force starred".
Finished(t) == step' = IF stask[t].cmd = "force" THEN "ForceStarred" ELSE "other"

\* Someone adds or removes a star: a GuildReactionAdd/DeleteEvent is dispatched.
ReactionEvent(t) ==
    /\ UNCHANGED notStarVars
    /\ stask[t].pc = "idle"
    /\ starOps < MaxStarOps
    /\ starOps' = starOps + 1
    /\ \E n \in {stars - 1, stars + 1} :
         /\ n >= 0 /\ n <= MaxStars
         /\ stars' = n
    /\ stask' = [stask EXCEPT ![t] = [IdleStar EXCEPT !.pc = "start", !.cmd = "reaction"]]
    /\ step' = "other"
    /\ UNCHANGED <<sbChannel, entry, showcase, nextMsgId, wasForced>>

\* /star force or the "Force Star" message command, with the message and its
\* reactions as resolved for the command.
ForceCommand(t) ==
    /\ UNCHANGED notStarVars
    /\ stask[t].pc = "idle"
    /\ starOps < MaxStarOps
    /\ starOps' = starOps + 1
    /\ stask' = [stask EXCEPT ![t] =
                   [IdleStar EXCEPT !.pc = "start", !.cmd = "force", !.stars = stars,
                                    !.force = TRUE]]
    /\ step' = "other"
    /\ UNCHANGED <<stars, sbChannel, entry, showcase, nextMsgId, wasForced>>

\* on_reaction up to star_message's fetch of the entry: excluded channel or
\* missing permissions end it, a deleted starboard channel wipes the entries,
\* otherwise the message is fetched with its current star count.
ReactionBegin(t) ==
    /\ UNCHANGED notStarVars
    /\ stask[t].pc = "start"
    /\ stask[t].cmd = "reaction"
    /\ \E proceed \in BOOLEAN :
         IF ~proceed
         THEN /\ stask' = [stask EXCEPT ![t] = IdleStar]
              /\ UNCHANGED <<sbChannel, entry>>
         ELSE IF sbChannel = "missing"
         THEN /\ sbChannel' = "unset"
              /\ entry' = NoEntry
              /\ stask' = [stask EXCEPT ![t] = IdleStar]
         ELSE IF sbChannel = "unset"
         THEN /\ stask' = [stask EXCEPT ![t] = IdleStar]
              /\ UNCHANGED <<sbChannel, entry>>
         ELSE /\ stask' = [stask EXCEPT ![t] = [@ EXCEPT !.pc = "entry", !.stars = stars]]
              /\ UNCHANGED <<sbChannel, entry>>
    /\ step' = "other"
    /\ UNCHANGED <<stars, showcase, nextMsgId, starOps, wasForced>>

\* force_star up to its call of star_message: as above, and a message whose
\* entry is already force-starred is rejected.
ForceBegin(t) ==
    /\ UNCHANGED notStarVars
    /\ stask[t].pc = "start"
    /\ stask[t].cmd = "force"
    /\ \E proceed \in BOOLEAN :
         IF ~proceed
         THEN /\ stask' = [stask EXCEPT ![t] = IdleStar]
              /\ step' = "other"
              /\ UNCHANGED <<sbChannel, entry>>
         ELSE IF sbChannel = "missing"
         THEN /\ sbChannel' = "unset"
              /\ entry' = NoEntry
              /\ stask' = [stask EXCEPT ![t] = IdleStar]
              /\ step' = "other"
         ELSE IF sbChannel = "unset"
         THEN /\ stask' = [stask EXCEPT ![t] = IdleStar]
              /\ step' = "other"
              /\ UNCHANGED <<sbChannel, entry>>
         ELSE IF entry # NoEntry /\ entry.forced
         THEN /\ stask' = [stask EXCEPT ![t] = IdleStar]
              /\ step' = "ForceRejected"
              /\ UNCHANGED <<sbChannel, entry>>
         ELSE /\ stask' = [stask EXCEPT ![t] = [@ EXCEPT !.pc = "entry"]]
              /\ step' = "other"
              /\ UNCHANGED <<sbChannel, entry>>
    /\ UNCHANGED <<stars, showcase, nextMsgId, starOps, wasForced>>

\* star_message: StarboardEntry.fetch, then the decision to post, to edit or
\* to return.
StarFetchEntry(t) ==
    /\ UNCHANGED notStarVars
    /\ stask[t].pc = "entry"
    /\ LET force == IF entry = NoEntry THEN stask[t].force
                    ELSE entry.forced \/ stask[t].force IN
       IF IsStarrable(stask[t].stars, force)
       THEN /\ stask' = [stask EXCEPT ![t] = [@ EXCEPT !.pc = "post", !.ent = entry,
                                                       !.force = force]]
            /\ step' = "other"
       ELSE /\ stask' = [stask EXCEPT ![t] = IdleStar]
            /\ Finished(t)
    /\ UNCHANGED <<stars, sbChannel, entry, showcase, nextMsgId, starOps, wasForced>>

\* star_message: rest.create_message for a message without entry,
\* rest.edit_message of the entry's showcase message otherwise.
StarPost(t) ==
    /\ UNCHANGED notStarVars
    /\ stask[t].pc = "post"
    /\ IF stask[t].ent = NoEntry
       THEN /\ showcase' = showcase \cup {Payload(nextMsgId, stask[t].stars, stask[t].force)}
            /\ nextMsgId' = nextMsgId + 1
            /\ stask' = [stask EXCEPT ![t] = [@ EXCEPT !.pc = "save", !.posted = nextMsgId]]
            /\ step' = "other"
       ELSE IF stask[t].ent.msg \in ShowcaseIds
       THEN /\ showcase' = {m \in showcase : m.id # stask[t].ent.msg} \cup
                              {Payload(stask[t].ent.msg, stask[t].stars, stask[t].force)}
            /\ stask' = [stask EXCEPT ![t] = IdleStar]
            /\ Finished(t)
            /\ UNCHANGED nextMsgId
       ELSE \* hikari.NotFoundError
            /\ stask' = [stask EXCEPT ![t] = [@ EXCEPT !.pc = "delete"]]
            /\ step' = "other"
            /\ UNCHANGED <<showcase, nextMsgId>>
    /\ UNCHANGED <<stars, sbChannel, entry, starOps, wasForced>>

\* star_message: entry.update() of the new StarboardEntry, keyed by the
\* original message.
StarSave(t) ==
    /\ UNCHANGED notStarVars
    /\ stask[t].pc = "save"
    /\ entry' = [msg |-> stask[t].posted, forced |-> stask[t].force]
    /\ wasForced' = (wasForced \/ stask[t].force)
    /\ stask' = [stask EXCEPT ![t] = IdleStar]
    /\ Finished(t)
    /\ UNCHANGED <<stars, sbChannel, showcase, nextMsgId, starOps>>

\* star_message after NotFoundError: entry.delete(), then the recursive
\* star_message(message, guild, settings, stars) up to its fetch.
StarDelete(t) ==
    /\ UNCHANGED notStarVars
    /\ stask[t].pc = "delete"
    /\ entry' = NoEntry
    /\ stask' = [stask EXCEPT ![t] = [@ EXCEPT !.pc = "entry", !.force = FALSE,
                                              !.ent = NoEntry, !.recovering = TRUE]]
    /\ step' = "other"
    /\ UNCHANGED <<stars, sbChannel, showcase, nextMsgId, starOps, wasForced>>

\* Somebody deletes a showcase message.
DeleteShowcase ==
    /\ UNCHANGED notStarVars
    /\ \E m \in showcase : showcase' = showcase \ {m}
    /\ step' = "other"
    /\ UNCHANGED <<stars, sbChannel, entry, nextMsgId, stask, starOps, wasForced>>

\* The starboard channel is deleted, and its messages with it.
DeleteStarboardChannel ==
    /\ UNCHANGED notStarVars
    /\ sbChannel = "ok"
    /\ sbChannel' = "missing"
    /\ showcase' = {}
    /\ step' = "other"
    /\ UNCHANGED <<stars, entry, nextMsgId, stask, starOps, wasForced>>

\* ------------------------------------------------------------------- tags
TagTasks == 1 .. MaxTagTasks

\* What users type, and the strings left after str.casefold().
RawNames == {"Foo", "foo", "bar", "baz"}
Casefold(s) == IF s = "Foo" THEN "foo" ELSE s
TagNames == {Casefold(s) : s \in RawNames}
TagUsers == {"u1", "u2"}

NoTag == [exists |-> FALSE, owner |-> "none", aliases |-> <<>>, content |-> "none"]

IdleTag == [pc |-> "idle", cmd |-> "none", user |-> "none", name |-> "none",
            alias |-> "none", receiver |-> "none", tag |-> "none", copy |-> NoTag,
            manage |-> FALSE]

TagsAtRest ==
    /\ tagStore = [n \in TagNames |-> NoTag]
    /\ tagTask = [t \in TagTasks |-> IdleTag]
    /\ tagOps = 0

AliasSet(tag) == {tag.aliases[i] : i \in 1 .. Len(tag.aliases)}

\* list.remove: drops the first occurrence.
RECURSIVE RemoveFirst(_, _)
RemoveFirst(seq, x) ==
    IF seq = <<>> THEN <<>>
    ELSE IF Head(seq) = x THEN Tail(seq)
    ELSE <<Head(seq)>> \o RemoveFirst(Tail(seq), x)

\* Tag.fetch: the guild's tags that have the key as name or among the aliases.
TagFetch(key) ==
    {n \in TagNames : tagStore[n].exists /\ (n = key \/ key \in AliasSet(tagStore[n]))}

TagDispatch(t, cmd, user, name, alias) ==
    /\ UNCHANGED notTagVars
    /\ tagTask[t].pc = "idle"
    /\ tagOps < MaxTagOps
    /\ tagOps' = tagOps + 1
    /\ tagTask' = [tagTask EXCEPT ![t] =
                     [IdleTag EXCEPT !.pc = "start", !.cmd = cmd, !.user = user,
                                     !.name = Casefold(name), !.alias = Casefold(alias)]]
    /\ step' = "other"
    /\ UNCHANGED tagStore

TagReturn(t) ==
    /\ tagTask' = [tagTask EXCEPT ![t] = IdleTag]
    /\ UNCHANGED <<tagStore, tagOps>>

\* /tags create
TagCreateCommand(t) ==
    \E user \in TagUsers, name \in RawNames : TagDispatch(t, "create", user, name, "none")

\* tag_create: the modal is submitted or dismissed, then Tag.fetch of the name.
TagCreateCheck(t) ==
    /\ UNCHANGED notTagVars
    /\ tagTask[t].pc = "start"
    /\ tagTask[t].cmd = "create"
    /\ step' = "other"
    /\ \E submitted \in BOOLEAN :
         IF ~submitted \/ TagFetch(tagTask[t].name) # {}
         THEN TagReturn(t)
         ELSE /\ tagTask' = [tagTask EXCEPT ![t] = [@ EXCEPT !.pc = "create"]]
              /\ UNCHANGED <<tagStore, tagOps>>

\* tag_create: Tag.create inserts the row; a row of that name makes it fail.
TagCreateWrite(t) ==
    /\ UNCHANGED notTagVars
    /\ tagTask[t].pc = "create"
    /\ IF tagStore[tagTask[t].name].exists
       THEN /\ UNCHANGED tagStore
            /\ step' = "other"
       ELSE /\ tagStore' = [tagStore EXCEPT ![tagTask[t].name] =
                              [exists |-> TRUE, owner |-> tagTask[t].user, aliases |-> <<>>,
                               content |-> "created"]]
            /\ step' = "TagCreated"
    /\ tagTask' = [tagTask EXCEPT ![t] = IdleTag]
    /\ UNCHANGED tagOps

\* /tags alias
TagAliasCommand(t) ==
    \E user \in TagUsers, name \in RawNames, alias \in RawNames :
        TagDispatch(t, "alias", user, name, alias)

\* tag_alias: Tag.fetch of the alias, "Alias taken" when it finds a tag.
TagAliasCheck(t) ==
    /\ UNCHANGED notTagVars
    /\ tagTask[t].pc = "start"
    /\ tagTask[t].cmd = "alias"
    /\ step' = "other"
    /\ IF TagFetch(tagTask[t].alias) # {}
       THEN TagReturn(t)
       ELSE /\ tagTask' = [tagTask EXCEPT ![t] = [@ EXCEPT !.pc = "fetch"]]
            /\ UNCHANGED <<tagStore, tagOps>>

\* tag_alias: Tag.fetch of the tag, the owner check and the append.
TagAliasFetch(t) ==
    /\ UNCHANGED notTagVars
    /\ tagTask[t].pc = "fetch"
    /\ tagTask[t].cmd = "alias"
    /\ step' = "other"
    /\ IF TagFetch(tagTask[t].name) = {}
       THEN TagReturn(t)
       ELSE \E n \in TagFetch(tagTask[t].name) :
              IF /\ tagStore[n].owner = tagTask[t].user
                 /\ tagTask[t].alias \notin AliasSet(tagStore[n])
                 /\ Len(tagStore[n].aliases) <= 5
              THEN /\ tagTask' = [tagTask EXCEPT ![t] =
                                    [@ EXCEPT !.pc = "update", !.tag = n,
                                              !.copy = [tagStore[n] EXCEPT !.aliases =
                                                          Append(@, tagTask[t].alias)]]]
                   /\ UNCHANGED <<tagStore, tagOps>>
              ELSE TagReturn(t)

\* /tags delalias
TagDelaliasCommand(t) ==
    \E user \in TagUsers, name \in RawNames, alias \in RawNames :
        TagDispatch(t, "delalias", user, name, alias)

\* tag_delalias: Tag.fetch of the tag, the owner check and the removal.
TagDelaliasFetch(t) ==
    /\ UNCHANGED notTagVars
    /\ tagTask[t].pc = "start"
    /\ tagTask[t].cmd = "delalias"
    /\ step' = "other"
    /\ IF TagFetch(tagTask[t].name) = {}
       THEN TagReturn(t)
       ELSE \E n \in TagFetch(tagTask[t].name) :
              IF /\ tagStore[n].owner = tagTask[t].user
                 /\ tagTask[t].alias \in AliasSet(tagStore[n])
              THEN /\ tagTask' = [tagTask EXCEPT ![t] =
                                    [@ EXCEPT !.pc = "update", !.tag = n,
                                              !.copy = [tagStore[n] EXCEPT !.aliases =
                                                          RemoveFirst(@, tagTask[t].alias)]]]
                   /\ UNCHANGED <<tagStore, tagOps>>
              ELSE TagReturn(t)

\* tag.update(): writes the fetched object back to its row.
TagUpdate(t) ==
    /\ UNCHANGED notTagVars
    /\ tagTask[t].pc = "update"
    /\ tagStore' = IF tagStore[tagTask[t].tag].exists
                   THEN [tagStore EXCEPT ![tagTask[t].tag] = tagTask[t].copy]
                   ELSE tagStore
    /\ step' = IF tagTask[t].cmd = "alias" THEN "AliasCreated" ELSE "other"
    /\ tagTask' = [tagTask EXCEPT ![t] = IdleTag]
    /\ UNCHANGED tagOps

\* /tags transfer
TagTransferCommand(t) ==
    \E user \in TagUsers, name \in RawNames, receiver \in TagUsers :
        /\ UNCHANGED notTagVars
        /\ tagTask[t].pc = "idle"
        /\ tagOps < MaxTagOps
        /\ tagOps' = tagOps + 1
        /\ tagTask' = [tagTask EXCEPT ![t] =
                         [IdleTag EXCEPT !.pc = "start", !.cmd = "transfer", !.user = user,
                                         !.name = Casefold(name), !.receiver = receiver]]
        /\ step' = "other"
        /\ UNCHANGED tagStore

\* tag_transfer: Tag.fetch of the tag, the owner check, the new owner_id.
TagTransferFetch(t) ==
    /\ UNCHANGED notTagVars
    /\ tagTask[t].pc = "start"
    /\ tagTask[t].cmd = "transfer"
    /\ step' = "other"
    /\ IF TagFetch(tagTask[t].name) = {}
       THEN TagReturn(t)
       ELSE \E n \in TagFetch(tagTask[t].name) :
              IF tagStore[n].owner = tagTask[t].user
              THEN /\ tagTask' = [tagTask EXCEPT ![t] =
                                    [@ EXCEPT !.pc = "update", !.tag = n,
                                              !.copy = [tagStore[n] EXCEPT !.owner =
                                                          tagTask[t].receiver]]]
                   /\ UNCHANGED <<tagStore, tagOps>>
              ELSE TagReturn(t)

\* /tags edit
TagEditCommand(t) ==
    \E user \in TagUsers, name \in RawNames : TagDispatch(t, "edit", user, name, "none")

\* tag_edit: Tag.fetch of the tag and the owner check, then the modal is shown.
TagEditFetch(t) ==
    /\ UNCHANGED notTagVars
    /\ tagTask[t].pc = "start"
    /\ tagTask[t].cmd = "edit"
    /\ step' = "other"
    /\ IF TagFetch(tagTask[t].name) = {}
       THEN TagReturn(t)
       ELSE \E n \in TagFetch(tagTask[t].name) :
              IF tagStore[n].owner = tagTask[t].user
              THEN /\ tagTask' = [tagTask EXCEPT ![t] =
                                    [@ EXCEPT !.pc = "modal", !.tag = n, !.copy = tagStore[n]]]
                   /\ UNCHANGED <<tagStore, tagOps>>
              ELSE TagReturn(t)

\* tag_edit: the modal is submitted or dismissed; on submit the new content
\* is set on the fetched object and tag.update() writes it back to its row.
TagEditSubmit(t) ==
    /\ UNCHANGED notTagVars
    /\ tagTask[t].pc = "modal"
    /\ \E submitted \in BOOLEAN :
         IF submitted /\ tagStore[tagTask[t].tag].exists
         THEN /\ tagStore' = [tagStore EXCEPT ![tagTask[t].tag] =
                                [tagTask[t].copy EXCEPT !.content = "edited"]]
              /\ step' = "TagEdited"
         ELSE /\ UNCHANGED tagStore
              /\ step' = "other"
    /\ tagTask' = [tagTask EXCEPT ![t] = IdleTag]
    /\ UNCHANGED tagOps

\* /tags delete
TagDeleteCommand(t) ==
    \E user \in TagUsers, name \in RawNames : TagDispatch(t, "delete", user, name, "none")

\* tag_delete: Tag.fetch of the tag, the owner or MANAGE_MESSAGES check.
TagDeleteFetch(t) ==
    /\ UNCHANGED notTagVars
    /\ tagTask[t].pc = "start"
    /\ tagTask[t].cmd = "delete"
    /\ step' = "other"
    /\ IF TagFetch(tagTask[t].name) = {}
       THEN TagReturn(t)
       ELSE \E n \in TagFetch(tagTask[t].name), manageMessages \in BOOLEAN :
              IF tagStore[n].owner = tagTask[t].user \/ manageMessages
              THEN /\ tagTask' = [tagTask EXCEPT ![t] = [@ EXCEPT !.pc = "delete", !.tag = n,
                                                              !.manage = manageMessages]]
                   /\ UNCHANGED <<tagStore, tagOps>>
              ELSE TagReturn(t)

\* tag_delete: tag.delete() removes the row.
TagDeleteWrite(t) ==
    /\ UNCHANGED notTagVars
    /\ tagTask[t].pc = "delete"
    /\ tagStore' = [tagStore EXCEPT ![tagTask[t].tag] = NoTag]
    /\ step' = "other"
    /\ tagTask' = [tagTask EXCEPT ![t] = IdleTag]
    /\ UNCHANGED tagOps

\* ------------------------------------------- tags, the earlier generation
\* The same commands in src/extensions/tags.py: the tag handler has no update,
\* a change deletes the row and creates it again from the fetched object.

\* /tag create
OldTagCreateCommand(t) ==
    \E user \in TagUsers, name \in RawNames : TagDispatch(t, "old_create", user, name, "none")

\* tag_create: tag_handler.get of the name, "Tag exists" when it finds a tag.
OldTagCreateCheck(t) ==
    /\ UNCHANGED notTagVars
    /\ tagTask[t].pc = "start"
    /\ tagTask[t].cmd = "old_create"
    /\ step' = "other"
    /\ IF TagFetch(tagTask[t].name) # {}
       THEN TagReturn(t)
       ELSE /\ tagTask' = [tagTask EXCEPT ![t] =
                             [@ EXCEPT !.pc = "recreate", !.tag = tagTask[t].name,
                                       !.copy = [exists |-> TRUE, owner |-> tagTask[t].user,
                                                 aliases |-> <<>>, content |-> "created"]]]
            /\ UNCHANGED <<tagStore, tagOps>>

\* /tag alias
OldTagAliasCommand(t) ==
    \E user \in TagUsers, name \in RawNames, alias \in RawNames :
        TagDispatch(t, "old_alias", user, name, alias)

\* tag_alias: tag_handler.get of the alias, "Alias taken" when it finds a tag.
OldTagAliasCheck(t) ==
    /\ UNCHANGED notTagVars
    /\ tagTask[t].pc = "start"
    /\ tagTask[t].cmd = "old_alias"
    /\ step' = "other"
    /\ IF TagFetch(tagTask[t].alias) # {}
       THEN TagReturn(t)
       ELSE /\ tagTask' = [tagTask EXCEPT ![t] = [@ EXCEPT !.pc = "fetch"]]
            /\ UNCHANGED <<tagStore, tagOps>>

\* tag_alias: tag_handler.get of the tag, the owner check and the append.
OldTagAliasFetch(t) ==
    /\ UNCHANGED notTagVars
    /\ tagTask[t].pc = "fetch"
    /\ tagTask[t].cmd = "old_alias"
    /\ step' = "other"
    /\ IF TagFetch(tagTask[t].name) = {}
       THEN TagReturn(t)
       ELSE \E n \in TagFetch(tagTask[t].name) :
              IF /\ tagStore[n].owner = tagTask[t].user
                 /\ tagTask[t].alias \notin AliasSet(tagStore[n])
                 /\ Len(tagStore[n].aliases) <= 5
              THEN /\ tagTask' = [tagTask EXCEPT ![t] =
                                    [@ EXCEPT !.pc = "delete", !.tag = n,
                                              !.copy = [tagStore[n] EXCEPT !.aliases =
                                                          Append(@, tagTask[t].alias)]]]
                   /\ UNCHANGED <<tagStore, tagOps>>
              ELSE TagReturn(t)

\* /tag transfer
OldTagTransferCommand(t) ==
    \E user \in TagUsers, name \in RawNames, receiver \in TagUsers :
        /\ UNCHANGED notTagVars
        /\ tagTask[t].pc = "idle"
        /\ tagOps < MaxTagOps
        /\ tagOps' = tagOps + 1
        /\ tagTask' = [tagTask EXCEPT ![t] =
                         [IdleTag EXCEPT !.pc = "start", !.cmd = "old_transfer", !.user = user,
                                         !.name = Casefold(name), !.receiver = receiver]]
        /\ step' = "other"
        /\ UNCHANGED tagStore

\* /tag edit
OldTagEditCommand(t) ==
    \E user \in TagUsers, name \in RawNames : TagDispatch(t, "old_edit", user, name, "none")

\* tag_transfer and tag_edit: tag_handler.get of the tag and the owner check;
\* the object that will be created again has the new owner or content.
OldTagFetch(t) ==
    /\ UNCHANGED notTagVars
    /\ tagTask[t].pc = "start"
    /\ tagTask[t].cmd \in {"old_transfer", "old_edit"}
    /\ step' = "other"
    /\ IF TagFetch(tagTask[t].name) = {}
       THEN TagReturn(t)
       ELSE \E n \in TagFetch(tagTask[t].name) :
              IF tagStore[n].owner = tagTask[t].user
              THEN /\ tagTask' = [tagTask EXCEPT ![t] =
                        [@ EXCEPT !.pc = "delete", !.tag = n,
                                  !.copy = IF tagTask[t].cmd = "old_transfer"
                                           THEN [tagStore[n] EXCEPT !.owner = tagTask[t].receiver]
                                           ELSE [tagStore[n] EXCEPT !.content = "edited"]]]
                   /\ UNCHANGED <<tagStore, tagOps>>
              ELSE TagReturn(t)

\* tag_handler.delete(tag.name, guild_id)
OldTagDelete(t) ==
    /\ UNCHANGED notTagVars
    /\ tagTask[t].pc = "delete"
    /\ tagTask[t].cmd \in {"old_alias", "old_transfer", "old_edit"}
    /\ tagStore' = [tagStore EXCEPT ![tagTask[t].tag] = NoTag]
    /\ tagTask' = [tagTask EXCEPT ![t] = [@ EXCEPT !.pc = "recreate"]]
    /\ step' = "other"
    /\ UNCHANGED tagOps

\* tag_handler.create(tag): inserts the row, TagAlreadyExists when a row of
\* that name is there.
OldTagCreate(t) ==
    /\ UNCHANGED notTagVars
    /\ tagTask[t].pc = "recreate"
    /\ IF tagStore[tagTask[t].tag].exists
       THEN /\ UNCHANGED tagStore
            /\ step' = "TagAlreadyExists"
       ELSE /\ tagStore' = [tagStore EXCEPT ![tagTask[t].tag] = tagTask[t].copy]
            /\ step' = "other"
    /\ tagTask' = [tagTask EXCEPT ![t] = IdleTag]
    /\ UNCHANGED tagOps

\* -------------------------------------------------------------- reminders
\* The reminder's author and the other users who see the button, by id.
RemOwner == 1
RemUsers == {1, 2, 3}

\* What /reminder create is given: the length of the message (0: none) and
\* the seconds from now that "when" resolves to (NoTime: unparseable).
FIVE_YEARS == 31536000 * 5
NoTime == -1
MessageLengths == {0, 999, 1000, 1001}
Whens == {NoTime, 9, 10, 11, FIVE_YEARS - 1, FIVE_YEARS, FIVE_YEARS + 1}

NoNotes == [recipients |-> <<>>, jump |-> FALSE]
NoReminder == [exists |-> FALSE, notes |-> NoNotes]
IdleCreate == [pc |-> "idle", len |-> 0, when |-> NoTime]
IdleJoin == [pc |-> "idle", notes |-> NoNotes, kind |-> "none"]
IdleFire == [pc |-> "idle", notes |-> NoNotes]

RemAtRest ==
    /\ remTimer = NoReminder
    /\ remCmd = IdleCreate
    /\ remShown = FALSE
    /\ remJoin = [u \in RemUsers |-> IdleJoin]
    /\ remFire = IdleFire
    /\ pinged = {}
    /\ joined = {}
    /\ remOps = 0

Recipients(notes) == {notes.recipients[i] : i \in 1 .. Len(notes.recipients)}

\* reminder_create up to its first completed await: the checks of the
\* message and of the time, then scheduler.create_timer.
ReminderCreate ==
    /\ UNCHANGED notRemVars
    /\ remCmd.pc = "idle"
    /\ ~remTimer.exists /\ remFire.pc = "idle"
    /\ remOps < MaxRemOps
    /\ remOps' = remOps + 1
    /\ \E len \in MessageLengths, when \in Whens :
         IF len >= 1000
         THEN /\ step' = "ReminderTooLong"
              /\ remCmd' = [pc |-> "idle", len |-> len, when |-> when]
              /\ UNCHANGED remTimer
         ELSE IF when = NoTime
         THEN /\ step' = "ReminderInvalidTime"
              /\ remCmd' = [pc |-> "idle", len |-> len, when |-> when]
              /\ UNCHANGED remTimer
         ELSE IF when >= FIVE_YEARS
         THEN /\ step' = "ReminderTooFar"
              /\ remCmd' = [pc |-> "idle", len |-> len, when |-> when]
              /\ UNCHANGED remTimer
         ELSE IF when < 10
         THEN /\ step' = "ReminderTooShort"
              /\ remCmd' = [pc |-> "idle", len |-> len, when |-> when]
              /\ UNCHANGED remTimer
         ELSE /\ step' = "ReminderCreated"
              /\ remCmd' = [pc |-> "respond", len |-> len, when |-> when]
              /\ remTimer' = [exists |-> TRUE, notes |-> NoNotes]
    /\ UNCHANGED <<remShown, remJoin, remFire, pinged, joined>>

\* reminder_create: ctx.respond shows the confirmation and its button.
ReminderRespond ==
    /\ UNCHANGED notRemVars
    /\ remCmd.pc = "respond"
    /\ remShown' = TRUE
    /\ remCmd' = [remCmd EXCEPT !.pc = "backfill"]
    /\ step' = "other"
    /\ UNCHANGED <<remTimer, remJoin, remFire, pinged, joined, remOps>>

\* reminder_create: the jump link is put into reminder_data and
\* scheduler.update_timer rewrites the notes of the row.
ReminderBackfill ==
    /\ UNCHANGED notRemVars
    /\ remCmd.pc = "backfill"
    /\ remTimer' = IF remTimer.exists
                   THEN [remTimer EXCEPT !.notes = [recipients |-> <<>>, jump |-> TRUE]]
                   ELSE remTimer
    /\ remCmd' = [remCmd EXCEPT !.pc = "idle"]
    /\ step' = "other"
    /\ UNCHANGED <<remShown, remJoin, remFire, pinged, joined, remOps>>

\* A user presses "Remind me too!": an InteractionCreateEvent with RMAR:id.
ReminderClick(u) ==
    /\ UNCHANGED notRemVars
    /\ remShown
    /\ remJoin[u].pc = "idle"
    /\ remOps < MaxRemOps
    /\ remOps' = remOps + 1
    /\ remJoin' = [remJoin EXCEPT ![u] = [IdleJoin EXCEPT !.pc = "get"]]
    /\ step' = "other"
    /\ UNCHANGED <<remTimer, remCmd, remShown, remFire, pinged, joined>>

\* reminder_component_handler: scheduler.get_timer, the owner check, then
\* the join (with the cap) or the leave on the notes just read.
ReminderGet(u) ==
    /\ UNCHANGED notRemVars
    /\ remJoin[u].pc = "get"
    /\ step' = "other"
    /\ IF ~remTimer.exists \/ u = RemOwner
       THEN remJoin' = [remJoin EXCEPT ![u] = IdleJoin]
       ELSE IF u \notin Recipients(remTimer.notes)
       THEN IF Len(remTimer.notes.recipients) > 50
            THEN remJoin' = [remJoin EXCEPT ![u] = IdleJoin]
            ELSE remJoin' = [remJoin EXCEPT ![u] =
                               [pc |-> "update", kind |-> "join",
                                notes |-> [remTimer.notes EXCEPT !.recipients = Append(@, u)]]]
       ELSE remJoin' = [remJoin EXCEPT ![u] =
                          [pc |-> "update", kind |-> "leave",
                           notes |-> [remTimer.notes EXCEPT !.recipients = RemoveFirst(@, u)]]]
    /\ UNCHANGED <<remTimer, remCmd, remShown, remFire, pinged, joined, remOps>>

\* reminder_component_handler: scheduler.update_timer rewrites the notes,
\* then the user is told they were added or removed.
ReminderUpdate(u) ==
    /\ UNCHANGED notRemVars
    /\ remJoin[u].pc = "update"
    /\ remTimer' = IF remTimer.exists
                   THEN [remTimer EXCEPT !.notes = remJoin[u].notes]
                   ELSE remTimer
    /\ joined' = IF ~remTimer.exists THEN joined
                 ELSE IF remJoin[u].kind = "join" THEN joined \cup {u}
                 ELSE joined \ {u}
    /\ remJoin' = [remJoin EXCEPT ![u] = IdleJoin]
    /\ step' = IF remJoin[u].kind = "join" THEN "ReminderJoined" ELSE "ReminderLeft"
    /\ UNCHANGED <<remCmd, remShown, remFire, pinged, remOps>>

\* The scheduler picks the due reminder up: the row is deleted and a
\* TimerCompleteEvent with the timer as read is dispatched.
ReminderFire ==
    /\ UNCHANGED notRemVars
    /\ remTimer.exists
    /\ remShown
    /\ remFire.pc = "idle"
    /\ remFire' = [pc |-> "notify", notes |-> remTimer.notes]
    /\ remTimer' = NoReminder
    /\ step' = "other"
    /\ UNCHANGED <<remCmd, remShown, remJoin, pinged, joined, remOps>>

\* on_reminder: the owner and the additional recipients are mentioned in the
\* channel; if that send fails the owner alone gets a direct message.
OnReminder ==
    /\ UNCHANGED notRemVars
    /\ remFire.pc = "notify"
    /\ \E sent \in BOOLEAN :
         IF sent
         THEN /\ pinged' = {RemOwner} \cup Recipients(remFire.notes)
              /\ step' = "ReminderSent"
              /\ remFire' = [remFire EXCEPT !.pc = "sent"]
         ELSE /\ pinged' = {}
              /\ step' = "ReminderDirect"
              /\ remFire' = [remFire EXCEPT !.pc = "direct"]
    /\ UNCHANGED <<remTimer, remCmd, remShown, remJoin, joined, remOps>>

\* ------------------------------------------------------------ user logger
\* One guild and one log channel. An embed is its serial number, its
\* total_length() and whether the event behind it happened during a freeze.
EmbedLengths == {500, 3001}
Never == -1

IdleFlush == [pc |-> "sleep", chunks |-> <<>>, idx |-> 0]

LogAtRest ==
    /\ logQueue = <<>>
    /\ nextEmbedId = 1
    /\ flush = IdleFlush
    /\ lastSent = <<>>
    /\ delivered = 0
    /\ logNow = 0
    /\ frozen = FALSE
    /\ unfreezeAt = Never
    /\ handlers = {}
    /\ logEvents = 0

\* sum([embed.total_length() for embed in chunk])
RECURSIVE TotalLength(_)
TotalLength(chunk) ==
    IF chunk = <<>> THEN 0 ELSE Head(chunk).len + TotalLength(Tail(chunk))

\* The test without its count of the embeds in the chunk.
FitsChunkByLength(chunk, embed) ==
    TotalLength(chunk) + embed.len <= 6000

\* _iter_queue: the test that puts an embed into the last chunk.
FitsChunk(chunk, embed) ==
    TotalLength(chunk) + embed.len <= 6000 /\ Len(chunk) < 10

\* The embed put at the front of the last chunk instead of its end.
AddToChunksFront(chunks, embed) ==
    IF FitsChunk(chunks[Len(chunks)], embed)
    THEN [chunks EXCEPT ![Len(chunks)] = <<embed>> \o @]
    ELSE Append(chunks, <<embed>>)

\* _iter_queue: the embed goes to the end of the last chunk or opens a chunk.
AddToChunks(chunks, embed) ==
    IF FitsChunk(chunks[Len(chunks)], embed)
    THEN [chunks EXCEPT ![Len(chunks)] = Append(@, embed)]
    ELSE Append(chunks, <<embed>>)

\* _iter_queue: embed_chunks, built from [[]] over the queue in order.
RECURSIVE ChunksFrom(_, _)
ChunksFrom(chunks, embeds) ==
    IF embeds = <<>> THEN chunks
    ELSE ChunksFrom(AddToChunks(chunks, Head(embeds)), Tail(embeds))

EmbedChunks(embeds) == ChunksFrom(<< <<>> >>, embeds)

\* UserLogger.log: nothing is queued for a frozen guild unless bypass is set.
Log(len, bypass, tainted) ==
    IF frozen /\ ~bypass
    THEN UNCHANGED <<logQueue, nextEmbedId>>
    ELSE /\ logQueue' = Append(logQueue, [id |-> nextEmbedId, len |-> len, tainted |-> tainted])
         /\ nextEmbedId' = nextEmbedId + 1

\* History: the highest serial number delivered, lastSent included.
Settled ==
    IF lastSent = <<>> \/ lastSent[Len(lastSent)].id < delivered THEN delivered
    ELSE lastSent[Len(lastSent)].id

\* A listener that needs no audit log entry logs an embed.
LogEmbed ==
    /\ UNCHANGED notLogVars
    /\ nextEmbedId <= MaxEmbeds
    /\ \E len \in EmbedLengths : Log(len, FALSE, frozen)
    /\ lastSent' = <<>>
    /\ delivered' = Settled
    /\ step' = "other"
    /\ UNCHANGED <<flush, logNow, frozen, unfreezeAt, handlers, logEvents>>

\* _iter_queue wakes from its sleep: an empty queue is skipped, otherwise the
\* chunks are built.
FlushStart ==
    /\ UNCHANGED notLogVars
    /\ flush.pc = "sleep"
    /\ logQueue # <<>>
    /\ flush' = [pc |-> "send", chunks |-> EmbedChunks(logQueue), idx |-> 1]
    /\ lastSent' = <<>>
    /\ delivered' = Settled
    /\ step' = "other"
    /\ UNCHANGED <<logQueue, nextEmbedId, logNow, frozen, unfreezeAt, handlers, logEvents>>

\* _iter_queue: rest.create_message with the next chunk, which may fail; after
\* the last chunk the channel's queue is replaced by an empty list.
FlushSend ==
    /\ UNCHANGED notLogVars
    /\ flush.pc = "send"
    /\ \E ok \in BOOLEAN :
         IF ok
         THEN /\ lastSent' = flush.chunks[flush.idx]
              /\ step' = "LogSent"
         ELSE /\ lastSent' = <<>>
              /\ step' = "other"
    /\ delivered' = Settled
    /\ IF flush.idx < Len(flush.chunks)
       THEN /\ flush' = [flush EXCEPT !.idx = @ + 1]
            /\ UNCHANGED logQueue
       ELSE /\ flush' = IdleFlush
            /\ logQueue' = <<>>
    /\ UNCHANGED <<nextEmbedId, logNow, frozen, unfreezeAt, handlers, logEvents>>

\* freeze_logging
FreezeLogging ==
    /\ UNCHANGED notLogVars
    /\ ~frozen
    /\ frozen' = TRUE
    /\ step' = "other"
    /\ UNCHANGED <<logQueue, nextEmbedId, flush, lastSent, delivered, logNow, unfreezeAt,
                   handlers, logEvents>>

\* unfreeze_logging is called: it sleeps 5 seconds first.
UnfreezeLogging ==
    /\ UNCHANGED notLogVars
    /\ frozen
    /\ unfreezeAt = Never
    /\ unfreezeAt' = logNow + 5
    /\ step' = "other"
    /\ UNCHANGED <<logQueue, nextEmbedId, flush, lastSent, delivered, logNow, frozen,
                   handlers, logEvents>>

\* unfreeze_logging after its sleep: the guild is taken off the list.
UnfreezeWake ==
    /\ UNCHANGED notLogVars
    /\ unfreezeAt # Never
    /\ logNow >= unfreezeAt
    /\ frozen' = FALSE
    /\ unfreezeAt' = Never
    /\ step' = "Unfrozen"
    /\ UNCHANGED <<logQueue, nextEmbedId, flush, lastSent, delivered, logNow, handlers,
                   logEvents>>

\* find_auditlog_data: 10 seconds for MESSAGE_BULK_DELETE, 5 otherwise.
SleepTime(bulk) == IF bulk THEN 10 ELSE 5

\* A guild event reaches a userlog listener, which goes to sleep in
\* find_auditlog_data.
GuildEvent ==
    /\ UNCHANGED notLogVars
    /\ logEvents < MaxLogEvents
    /\ logEvents' = logEvents + 1
    /\ \E bulk \in BOOLEAN :
         handlers' = handlers \cup
             {[id |-> logEvents + 1, wakeAt |-> logNow + SleepTime(bulk), tainted |-> frozen]}
    /\ step' = "other"
    /\ UNCHANGED <<logQueue, nextEmbedId, flush, lastSent, delivered, logNow, frozen,
                   unfreezeAt>>

\* The listener wakes up, builds its embed and calls log().
HandlerLog ==
    /\ UNCHANGED notLogVars
    /\ \E h \in handlers :
         /\ logNow >= h.wakeAt
         /\ handlers' = handlers \ {h}
         /\ Log(500, FALSE, h.tainted)
    /\ step' = "other"
    /\ UNCHANGED <<flush, lastSent, delivered, logNow, frozen, unfreezeAt, logEvents>>

\* massban_execute: the one entry logged with bypass=True; with a log file
\* attached it is sent at once and never queued.
LogBypass ==
    /\ UNCHANGED notLogVars
    /\ logEvents < MaxLogEvents
    /\ logEvents' = logEvents + 1
    /\ \E file \in BOOLEAN :
         IF file THEN UNCHANGED <<logQueue, nextEmbedId>> ELSE Log(500, TRUE, FALSE)
    /\ step' = "other"
    /\ UNCHANGED <<flush, lastSent, delivered, logNow, frozen, unfreezeAt, handlers>>

\* A second passes, once every sleeper that is due has run.
LogTick ==
    /\ UNCHANGED notLogVars
    /\ logNow < MaxLogTime
    /\ unfreezeAt = Never \/ unfreezeAt > logNow
    /\ \A h \in handlers : h.wakeAt > logNow
    /\ logNow' = logNow + 1
    /\ step' = "other"
    /\ UNCHANGED <<logQueue, nextEmbedId, flush, lastSent, delivered, frozen, unfreezeAt,
                   handlers, logEvents>>

\* ----------------------------------------------- audit log correlated events
\* One guild and one user. A gateway event is named by what really happened:
\* "retimeout" is the bot's own automatic timeout extension.
ModKinds == {"ban", "unban", "kick", "timeout", "timeout_remove", "retimeout"}

\* The audit log entry type the listener of each event asks for.
EntryType(kind) ==
    CASE kind = "ban" -> "MEMBER_BAN_ADD"
      [] kind = "unban" -> "MEMBER_BAN_REMOVE"
      [] kind = "kick" -> "MEMBER_KICK"
      [] OTHER -> "MEMBER_UPDATE"

EntryTypes == {"MEMBER_BAN_ADD", "MEMBER_BAN_REMOVE", "MEMBER_KICK", "MEMBER_UPDATE"}

\* Who an entry is by: a moderator, the bot on a moderator's command (the
\* reason then reads "<name> (<id>): <reason>"), or the bot's automatic timeout
\* extension.
EntryAuthors == {"mod", "bot_for_mod", "bot_extension"}

NoEmbed == [title |-> "none", moderator |-> "none", reason |-> "none"]
IdleMod == [pc |-> "idle", kind |-> "none", at |-> 0, wake |-> 0]

AuditAtRest ==
    /\ auditNow = 0
    /\ auditCache = {}
    /\ modTask = IdleMod
    /\ modEmbed = NoEmbed
    /\ journal = <<>>
    /\ modEvents = 0

\* ParsedBotReason.from_reason and the listeners' use of it: the moderator
\* named in the embed for an entry.
ModeratorOf(e) ==
    CASE e.by = "mod" -> "mod"
      [] e.by = "bot_for_mod" -> "mod"
      [] OTHER -> "bot"

\* find_auditlog_data: the entries of the type, at most 15 seconds old.
Matching(kind) ==
    {e \in auditCache : e.type = EntryType(kind) /\ e.created > auditNow - 15}

\* A moderation event arrives from the gateway; its listener goes to sleep in
\* find_auditlog_data.
ModGatewayEvent ==
    /\ UNCHANGED notAuditVars
    /\ modTask.pc # "sleep"
    /\ modEvents < MaxModEvents
    /\ modEvents' = modEvents + 1
    /\ \E kind \in ModKinds :
         modTask' = [pc |-> "sleep", kind |-> kind, at |-> auditNow, wake |-> auditNow + 5]
    /\ modEmbed' = NoEmbed
    /\ journal' = <<>>
    /\ step' = "other"
    /\ UNCHANGED <<auditNow, auditCache>>

\* An audit log entry about the user reaches the cache.
AuditEntryArrives ==
    /\ UNCHANGED notAuditVars
    /\ Cardinality(auditCache) < MaxAuditEntries
    /\ \E type \in EntryTypes, by \in EntryAuthors :
         auditCache' = auditCache \cup {[type |-> type, by |-> by, created |-> auditNow]}
    /\ step' = "other"
    /\ UNCHANGED <<auditNow, modTask, modEmbed, journal, modEvents>>

\* member_ban_add, member_ban_remove: an embed and a journal entry either way.
BanListener(kind, found) ==
    \/ /\ found # {}
       /\ \E e \in found :
            /\ modEmbed' = [title |-> kind, moderator |-> ModeratorOf(e), reason |-> "entry"]
            /\ journal' = Append(journal, [type |-> kind, author |-> ModeratorOf(e)])
    \/ /\ found = {}
       /\ modEmbed' = [title |-> kind, moderator |-> "Unknown", reason |-> "unable to view"]
       /\ journal' = Append(journal, [type |-> kind, author |-> "none"])

\* member_delete: without an entry the user is logged as having left.
KickListener(found) ==
    \/ /\ found # {}
       /\ \E e \in found :
            /\ modEmbed' = [title |-> "kick", moderator |-> ModeratorOf(e), reason |-> "entry"]
            /\ journal' = Append(journal, [type |-> "kick", author |-> ModeratorOf(e)])
    \/ /\ found = {}
       /\ modEmbed' = [title |-> "left", moderator |-> "none", reason |-> "none"]
       /\ UNCHANGED journal

\* member_update, timeout logging: nothing without an entry and nothing for an
\* automatic extension.
TimeoutListener(removed, found) ==
    \/ /\ found # {}
       /\ \E e \in found :
            IF e.by = "bot_extension"
            THEN UNCHANGED <<modEmbed, journal>>
            ELSE LET type == IF removed THEN "timeout_remove" ELSE "timeout"
                 IN /\ modEmbed' = [title |-> type, moderator |-> ModeratorOf(e), reason |-> "entry"]
                    /\ journal' = Append(journal, [type |-> type, author |-> ModeratorOf(e)])
    \/ /\ found = {}
       /\ UNCHANGED <<modEmbed, journal>>

\* The listener wakes up in find_auditlog_data, looks the entry up and logs.
ModListenerWake ==
    /\ UNCHANGED notAuditVars
    /\ modTask.pc = "sleep"
    /\ auditNow >= modTask.wake
    /\ modTask' = [modTask EXCEPT !.pc = "done"]
    /\ LET kind == modTask.kind
           found == Matching(kind)
       IN CASE kind \in {"ban", "unban"} -> BanListener(kind, found)
            [] kind = "kick" -> KickListener(found)
            [] OTHER -> TimeoutListener(kind = "timeout_remove", found)
    /\ step' = "ModLogged"
    /\ UNCHANGED <<auditNow, auditCache, modEvents>>

\* A second passes, once a listener that is due has run.
AuditTick ==
    /\ UNCHANGED notAuditVars
    /\ auditNow < MaxAuditTime
    /\ modTask.pc = "sleep" => modTask.wake > auditNow
    /\ auditNow' = auditNow + 1
    /\ step' = "other"
    /\ UNCHANGED <<auditCache, modTask, modEmbed, journal, modEvents>>

\* ----------------------------------------------------------- error handler
ModCommands == {"ban", "unban", "kick", "timeout"}
BotPermissions == {"BAN_MEMBERS", "KICK_MEMBERS", "MODERATE_MEMBERS"}

\* Exceptions the framework raises before the command body runs.
FrameworkErrors == {"arc.InvokerMissingPermissionsError", "arc.BotMissingPermissionsError",
                    "arc.UnderCooldownError"}

NoCall == [cmd |-> "none", perms |-> {}, above |-> TRUE]
NoResponse == [title |-> "none", ephemeral |-> FALSE]

ErrAtRest ==
    /\ cmdCall = NoCall
    /\ cmdError = "none"
    /\ cmdResponse = NoResponse
    /\ cmdRuns = 0

\* ModActions.ban, unban, kick, timeout: the exception of the checks made
\* before anything is done, or "none". kick and timeout go through
\* helpers.can_harm with MODERATE_MEMBERS.
EngineError(cmd, perms, above) ==
    CASE cmd \in {"ban", "unban"} /\ "BAN_MEMBERS" \notin perms ->
            "lightbulb.BotMissingRequiredPermission"
      [] cmd = "ban" /\ "BAN_MEMBERS" \in perms /\ ~above -> "RoleHierarchyError"
      [] cmd \in {"kick", "timeout"} /\ "MODERATE_MEMBERS" \notin perms ->
            "lightbulb.BotMissingRequiredPermission"
      [] cmd \in {"kick", "timeout"} /\ "MODERATE_MEMBERS" \in perms /\ ~above ->
            "RoleHierarchyError"
      [] OTHER -> "none"

\* application_error_handler: the title of the response, by the chain of
\* isinstance tests.
ResponseTitle(error) ==
    CASE error = "UserBlacklistedError" -> "Application access terminated"
      [] error = "arc.InvokerMissingPermissionsError" -> "Missing Permissions"
      [] error = "arc.BotMissingPermissionsError" -> "Bot Missing Permissions"
      [] error = "arc.UnderCooldownError" -> "Cooldown Pending"
      [] error = "arc.MaxConcurrencyReachedError" -> "Max Concurrency Reached"
      [] error = "BotRoleHierarchyError" -> "Role Hierarchy Error"
      [] error = "RoleHierarchyError" -> "Role Hierarchy Error"
      [] error = "asyncio.TimeoutError" -> "Action timed out"
      [] error = "hikari.InternalServerError" -> "Discord Server Error"
      [] error = "hikari.ForbiddenError" -> "Forbidden"
      [] error = "MemberExpectedError" -> "Member Expected"
      [] error = "arc.OptionConverterFailureError" -> "Option Conversion Error"
      [] OTHER -> "Unhandled exception"

\* A moderation command is invoked: a framework hook fails, or the body calls
\* the moderation engine.
CommandRuns ==
    /\ UNCHANGED notErrVars
    /\ cmdError = "none"
    /\ cmdRuns < MaxCmdRuns
    /\ cmdRuns' = cmdRuns + 1
    /\ \E cmd \in ModCommands, perms \in SUBSET BotPermissions, above \in BOOLEAN :
         /\ cmdCall' = [cmd |-> cmd, perms |-> perms, above |-> above]
         /\ \/ \E e \in FrameworkErrors : cmdError' = e
            \/ cmdError' = EngineError(cmd, perms, above)
    /\ cmdResponse' = NoResponse
    /\ step' = "other"

\* command_error_handler: the exception reaches application_error_handler.
ApplicationErrorHandler ==
    /\ UNCHANGED notErrVars
    /\ cmdError # "none"
    /\ cmdResponse' = [title |-> ResponseTitle(cmdError), ephemeral |-> TRUE]
    /\ cmdError' = "none"
    /\ step' = cmdError
    /\ UNCHANGED <<cmdCall, cmdRuns>>

\* ------------------------------------------------------------ role buttons
\* One guild and one bot-authored message with room for one button. A role
\* is what the checks read of it; positions are relative to the invoker's top
\* role, which sits at TopPosition.
TopPosition == 2
RolePositions == (TopPosition - 1) .. (TopPosition + 1)
Roles == [managed : BOOLEAN, premium : BOOLEAN, everyone : BOOLEAN, position : RolePositions]
NoRole == [managed |-> FALSE, premium |-> FALSE, everyone |-> FALSE, position |-> -1]
Labels == {"old", "new"}

NoButton == [exists |-> FALSE, role |-> NoRole, label |-> "none"]
NoRbCall == [cmd |-> "none", role |-> NoRole, label |-> "none", owner |-> FALSE, cached |-> TRUE]

RbAtRest ==
    /\ rbButton = NoButton
    /\ rbMessage = NoButton
    /\ rbCall = NoRbCall
    /\ rbReply = "none"
    /\ rbOps = 0

\* role.is_managed or role.is_premium_subscriber_role or role.id == ctx.guild_id
RoleIsManaged(role) == role.managed \/ role.premium \/ role.everyone

\* The comparison that lets a role at the invoker's own top position pass.
RoleStrictlyAboveInvoker(role, owner) == role.position > TopPosition /\ ~owner

\* role.position >= top_role.position and guild.owner_id != ctx.member.id
RoleAboveInvoker(role, owner) == role.position >= TopPosition /\ ~owner

\* The checks of the role option shared by add and edit: the title of the
\* rejection, or "pass".
RoleCheck(role, owner, cached) ==
    CASE RoleIsManaged(role) -> "Role is managed"
      [] ~RoleIsManaged(role) /\ ~cached -> "Caching error"
      [] ~RoleIsManaged(role) /\ cached /\ RoleAboveInvoker(role, owner) -> "Role Hierarchy Error"
      [] OTHER -> "pass"

\* RoleButton.create and RoleButton.update: the row is written and the live
\* message's component re-rendered, unless the platform refuses the edit.
RoleButtonPersist(button, forbidden) ==
    IF forbidden
    THEN /\ UNCHANGED <<rbButton, rbMessage>>
         /\ rbReply' = "Insufficient permissions"
    ELSE /\ rbButton' = button
         /\ rbMessage' = button
         /\ rbReply' = "Done!"

\* /rolebutton add
RolebuttonAdd ==
    /\ UNCHANGED notRbVars
    /\ rbOps < MaxRbOps
    /\ rbOps' = rbOps + 1
    /\ \E role \in Roles, label \in Labels, owner \in BOOLEAN, cached \in BOOLEAN,
          forbidden \in BOOLEAN :
         /\ rbCall' = [cmd |-> "add", role |-> role, label |-> label, owner |-> owner,
                       cached |-> cached]
         /\ LET check == RoleCheck(role, owner, cached)
            IN CASE check # "pass" ->
                      /\ rbReply' = check
                      /\ UNCHANGED <<rbButton, rbMessage>>
                 [] check = "pass" /\ rbButton.exists ->
                      /\ rbReply' = "Too many buttons"
                      /\ UNCHANGED <<rbButton, rbMessage>>
                 [] OTHER ->
                      RoleButtonPersist([exists |-> TRUE, role |-> role, label |-> label],
                                        forbidden)
    /\ step' = "RolebuttonAdd"

\* /rolebutton edit: the fetched button takes the new label, then the role
\* option, if given, is checked before anything is written.
RolebuttonEdit ==
    /\ UNCHANGED notRbVars
    /\ rbOps < MaxRbOps
    /\ rbOps' = rbOps + 1
    /\ \E role \in Roles \cup {NoRole}, label \in Labels \cup {"none"}, owner \in BOOLEAN,
          cached \in BOOLEAN, forbidden \in BOOLEAN :
         /\ rbCall' = [cmd |-> "edit", role |-> role, label |-> label, owner |-> owner,
                       cached |-> cached]
         /\ IF ~rbButton.exists
            THEN /\ rbReply' = "Not found"
                 /\ UNCHANGED <<rbButton, rbMessage>>
            ELSE LET labelled == IF label # "none" THEN [rbButton EXCEPT !.label = label]
                                 ELSE rbButton
                     check == IF role = NoRole THEN "pass" ELSE RoleCheck(role, owner, cached)
                 IN IF check # "pass"
                    THEN /\ rbReply' = check
                         /\ UNCHANGED <<rbButton, rbMessage>>
                    ELSE RoleButtonPersist(
                             IF role = NoRole THEN labelled
                             ELSE [labelled EXCEPT !.role = role], forbidden)
    /\ step' = "RolebuttonEdit"

\* ----------------------------------------------------- role button clicks
ClickMembers == {"m1", "m2"}
ButtonModes == {"TOGGLE", "ADD_ONLY", "REMOVE_ONLY"}

\* role_button_ratelimiter = RateLimiter(2, 1): the window in seconds, then
\* the number of acquisitions allowed within it.
RB_PERIOD == 2
RB_LIMIT == 1

NoClick == [member |-> "none", reply |-> "none", prior |-> 0, changed |-> FALSE]

ClickAtRest ==
    /\ clickNow = 0
    /\ acquired = [m \in ClickMembers |-> <<>>]
    /\ hasRole = [m \in ClickMembers |-> FALSE]
    /\ lastClick = NoClick

\* The times in a sequence that are later than a given time.
RECURSIVE Since(_, _)
Since(times, t) ==
    IF times = <<>> THEN <<>>
    ELSE IF Head(times) > t THEN <<Head(times)>> \o Since(Tail(times), t)
         ELSE Since(Tail(times), t)

\* RateLimiter.acquire(key, wait=False): exhausted when the key's acquisitions
\* within the trailing window have reached the limit.
Exhausted(m) == Len(Since(acquired[m], clickNow - RB_PERIOD)) >= RB_LIMIT

\* rolebutton_listener, after the limiter: the answer and the member's role.
ClickOutcome(m, mode, found) ==
    CASE ~found -> [reply |-> "Missing Data", role |-> hasRole[m]]
      [] found /\ hasRole[m] /\ mode \in {"TOGGLE", "REMOVE_ONLY"} ->
            [reply |-> "Role removed", role |-> FALSE]
      [] found /\ hasRole[m] /\ mode = "ADD_ONLY" ->
            [reply |-> "Role already added", role |-> TRUE]
      [] found /\ ~hasRole[m] /\ mode \in {"TOGGLE", "ADD_ONLY"} ->
            [reply |-> "Role added", role |-> TRUE]
      [] OTHER -> [reply |-> "Role already removed", role |-> FALSE]

\* rolebutton_listener: a member clicks the role button.
RolebuttonClick ==
    /\ UNCHANGED notClickVars
    /\ \E m \in ClickMembers, mode \in ButtonModes, roleExists \in BOOLEAN,
          canManage \in BOOLEAN, found \in BOOLEAN :
         LET prior == Len(Since(acquired[m], clickNow - 1))
         IN CASE ~roleExists ->
                   /\ lastClick' = [member |-> m, reply |-> "Orphaned", prior |-> prior,
                                    changed |-> FALSE]
                   /\ UNCHANGED <<acquired, hasRole>>
              [] roleExists /\ ~canManage ->
                   /\ lastClick' = [member |-> m, reply |-> "Missing Permissions",
                                    prior |-> prior, changed |-> FALSE]
                   /\ UNCHANGED <<acquired, hasRole>>
              [] roleExists /\ canManage /\ Exhausted(m) ->
                   /\ lastClick' = [member |-> m, reply |-> "Slow Down!", prior |-> prior,
                                    changed |-> FALSE]
                   /\ UNCHANGED <<acquired, hasRole>>
              [] OTHER ->
                   LET out == ClickOutcome(m, mode, found)
                   IN /\ acquired' = [acquired EXCEPT
                                        ![m] = Append(Since(@, clickNow - RB_PERIOD), clickNow)]
                      /\ hasRole' = [hasRole EXCEPT ![m] = out.role]
                      /\ lastClick' = [member |-> m, reply |-> out.reply, prior |-> prior,
                                       changed |-> out.role # hasRole[m]]
    /\ step' = "RolebuttonClick"
    /\ UNCHANGED clickNow

\* A second passes.
ClickTick ==
    /\ UNCHANGED notClickVars
    /\ clickNow < MaxClickTime
    /\ clickNow' = clickNow + 1
    /\ step' = "other"
    /\ UNCHANGED <<acquired, hasRole, lastClick>>

\* ----------------------------------------------------- quick-action buttons
\* One moderation response with an UNBAN and a JOURNAL button, both carrying
\* the id of the moderator "mod".
QuickActions == {"UNBAN", "JOURNAL"}
Clickers == {"mod", "other"}
BtnTasks == 1 .. MaxBtnTasks

IdleBtn == [pc |-> "idle", action |-> "none"]

BtnAtRest ==
    /\ btnDisabled = [a \in QuickActions |-> FALSE]
    /\ btnTask = [t \in BtnTasks |-> IdleBtn]
    /\ performed = [a \in QuickActions |-> 0]
    /\ prohibited = FALSE
    /\ btnClicks = 0

\* handle_mod_buttons up to its first await: the clicker is compared with the
\* moderator of the identifier, and for UNBAN the clicker's permissions are
\* read. The platform delivers no click on a disabled button.
ModButtonClick(t) ==
    /\ UNCHANGED notBtnVars
    /\ btnTask[t].pc = "idle"
    /\ btnClicks < MaxBtnClicks
    /\ btnClicks' = btnClicks + 1
    /\ \E a \in QuickActions, clicker \in Clickers, canBan \in BOOLEAN :
         /\ ~btnDisabled[a]
         /\ CASE clicker # "mod" ->
                   /\ prohibited' = TRUE
                   /\ step' = "Action prohibited"
                   /\ UNCHANGED btnTask
              [] clicker = "mod" /\ a = "UNBAN" /\ ~canBan ->
                   /\ step' = "Missing Permissions"
                   /\ UNCHANGED <<btnTask, prohibited>>
              [] OTHER ->
                   /\ btnTask' = [btnTask EXCEPT ![t] = [pc |-> "act", action |-> a]]
                   /\ step' = "other"
                   /\ UNCHANGED prohibited
    /\ UNCHANGED <<btnDisabled, performed>>

\* handle_mod_buttons: self.unban is called, or the journal is fetched and
\* shown.
ModButtonAct(t) ==
    /\ UNCHANGED notBtnVars
    /\ btnTask[t].pc = "act"
    /\ performed' = [performed EXCEPT ![btnTask[t].action] = @ + 1]
    /\ btnTask' = [btnTask EXCEPT ![t].pc = "disable"]
    /\ step' = "QuickActionDone"
    /\ UNCHANGED <<btnDisabled, prohibited, btnClicks>>

\* handle_mod_buttons: the message is edited with the clicked button disabled;
\* a refused edit is suppressed.
ModButtonDisable(t) ==
    /\ UNCHANGED notBtnVars
    /\ btnTask[t].pc = "disable"
    /\ \E edited \in BOOLEAN :
         btnDisabled' = IF edited THEN [btnDisabled EXCEPT ![btnTask[t].action] = TRUE]
                        ELSE btnDisabled
    /\ btnTask' = [btnTask EXCEPT ![t] = IdleBtn]
    /\ step' = "other"
    /\ UNCHANGED <<performed, prohibited, btnClicks>>

\* ------------------------------------------------------------------ reports
NoRepCall == [gen |-> "none", enabled |-> FALSE, resolved |-> TRUE]

RepAtRest ==
    /\ repRow = [is_enabled |-> FALSE]
    /\ repCached = [is_enabled |-> FALSE]
    /\ repChannel = TRUE
    /\ repCall = NoRepCall
    /\ repReply = "none"
    /\ repError = "none"
    /\ repSent = 0
    /\ repOps = 0

\* report: the row is persisted as disabled and the cache refreshed.
DisableReports ==
    /\ repRow' = [is_enabled |-> FALSE]
    /\ repCached' = [is_enabled |-> FALSE]

\* report, from the permission check on: the modal is shown and, if it is
\* submitted, the report sent.
ReportBody(canSend, submitted) ==
    /\ repError' = "none"
    /\ UNCHANGED <<repRow, repCached>>
    /\ CASE ~canSend -> repReply' = "Oops! (no permissions)" /\ UNCHANGED repSent
         [] canSend /\ ~submitted -> repReply' = "none" /\ UNCHANGED repSent
         [] OTHER -> repReply' = "Report Submitted" /\ repSent' = repSent + 1

\* report of src/src/extensions/reports.py: the two assert statements on the
\* channel come before the test for a missing channel; they are skipped only
\* when the interpreter runs with assertions off.
Report ==
    /\ UNCHANGED notRepVars
    /\ repOps < MaxRepOps
    /\ repOps' = repOps + 1
    /\ repCall' = [gen |-> "new", enabled |-> repCached.is_enabled, resolved |-> repChannel]
    /\ \E self \in BOOLEAN, asserts \in BOOLEAN, canSend \in BOOLEAN, submitted \in BOOLEAN :
         CASE self ->
                /\ repReply' = "Huh?"
                /\ repError' = "none"
                /\ UNCHANGED <<repRow, repCached, repSent>>
           [] ~self /\ ~repCached.is_enabled ->
                /\ repReply' = "Oops! (not enabled)"
                /\ repError' = "none"
                /\ UNCHANGED <<repRow, repCached, repSent>>
           [] ~self /\ repCached.is_enabled /\ ~repChannel /\ asserts ->
                /\ repReply' = "none"
                /\ repError' = "AssertionError"
                /\ UNCHANGED <<repRow, repCached, repSent>>
           [] ~self /\ repCached.is_enabled /\ ~repChannel /\ ~asserts ->
                /\ DisableReports
                /\ repReply' = "Oops! (not enabled)"
                /\ repError' = "none"
                /\ UNCHANGED repSent
           [] OTHER -> ReportBody(canSend, submitted)
    /\ step' = "Report"
    /\ UNCHANGED repChannel

\* report of src/extensions/reports.py, the earlier generation.
OldReport ==
    /\ UNCHANGED notRepVars
    /\ repOps < MaxRepOps
    /\ repOps' = repOps + 1
    /\ repCall' = [gen |-> "old", enabled |-> repCached.is_enabled, resolved |-> repChannel]
    /\ \E self \in BOOLEAN, canSend \in BOOLEAN, submitted \in BOOLEAN :
         CASE self ->
                /\ repReply' = "Huh?"
                /\ repError' = "none"
                /\ UNCHANGED <<repRow, repCached, repSent>>
           [] ~self /\ ~repCached.is_enabled ->
                /\ repReply' = "Oops! (not enabled)"
                /\ repError' = "none"
                /\ UNCHANGED <<repRow, repCached, repSent>>
           [] ~self /\ repCached.is_enabled /\ ~repChannel ->
                /\ DisableReports
                /\ repReply' = "Oops! (not enabled)"
                /\ repError' = "none"
                /\ UNCHANGED repSent
           [] OTHER -> ReportBody(canSend, submitted)
    /\ step' = "Report"
    /\ UNCHANGED repChannel

\* The reports channel is deleted, or one is configured again.
ReportsChannelChange ==
    /\ UNCHANGED notRepVars
    /\ repChannel' = ~repChannel
    /\ IF repChannel'
       THEN /\ repRow' = [is_enabled |-> TRUE]
            /\ repCached' = [is_enabled |-> TRUE]
       ELSE UNCHANGED <<repRow, repCached>>
    /\ step' = "other"
    /\ UNCHANGED <<repCall, repReply, repError, repSent, repOps>>

\* ---------------------------------------------------------- developer tools
\* Lengths of the output text passed to send_paginated.
DevLengths == {1, 1999, 2000, 2001, 4500}

NoDevInput == [len |-> 0, channel |-> TRUE]

DevAtRest ==
    /\ devInput = NoDevInput
    /\ devSent = <<>>
    /\ devChannel = [channel |-> 0, dm |-> 0]
    /\ devRuns = 0

\* send_paginated: the messages sent for a text of a length, to a channel or
\* to a user. Only the branch for a user returns after the single message.
PaginatedMessages(len, channel) ==
    CASE len <= 2000 /\ channel -> <<"trash", "navigator">>
      [] len <= 2000 /\ ~channel -> <<"plain">>
      [] OTHER -> <<"navigator">>

\* send_paginated
SendPaginated ==
    /\ UNCHANGED notDevVars
    /\ devRuns < MaxDevRuns
    /\ devRuns' = devRuns + 1
    /\ \E len \in DevLengths, channel \in BOOLEAN :
         /\ devInput' = [len |-> len, channel |-> channel]
         /\ devSent' = PaginatedMessages(len, channel)
         /\ devChannel' = IF channel
                          THEN [devChannel EXCEPT !.channel = @ + Len(PaginatedMessages(len, channel))]
                          ELSE [devChannel EXCEPT !.dm = @ + Len(PaginatedMessages(len, channel))]
    /\ step' = "SendPaginated"

\* -------------------------------------------------------------- diff helper
\* A list-of-flags attribute: lists without repetition of up to MaxFlags of
\* three flags.
Flags == {"A", "B", "C"}
FlagLists ==
    {l \in UNION {[1 .. n -> Flags] : n \in 0 .. MaxFlags} :
        \A i, j \in 1 .. Len(l) : i # j => l[i] # l[j]}

NoDiffInput == [old |-> <<>>, new |-> <<>>]

DiffAtRest ==
    /\ diffInput = NoDiffInput
    /\ diffRendered = FALSE
    /\ diffRuns = 0

\* set(names)
NameSet(l) == {l[i] : i \in 1 .. Len(l)}

\* get_diff for one attribute holding lists: with both lists empty the
\* flag-list branch is not taken and the last branch compares old != new; in
\* the flag-list branch the attribute is skipped when either difference of the
\* two sets is empty.
RendersFlagList(old, new) ==
    IF old = <<>> /\ new = <<>>
    THEN old # new
    ELSE IF NameSet(old) \ NameSet(new) = {} \/ NameSet(new) \ NameSet(old) = {}
         THEN FALSE
         ELSE old # new

\* get_diff
GetDiff ==
    /\ UNCHANGED notDiffVars
    /\ diffRuns < MaxDiffRuns
    /\ diffRuns' = diffRuns + 1
    /\ \E old \in FlagLists, new \in FlagLists :
         /\ diffInput' = [old |-> old, new |-> new]
         /\ diffRendered' = RendersFlagList(old, new)
    /\ step' = "GetDiff"

\* --------------------------------------------------------------- calculator
\* The ten digit characters; the value of a digit is its index minus one.
DigitChars == <<"0", "1", "2", "3", "4", "5", "6", "7", "8", "9">>
DigitSet == {DigitChars[i] : i \in 1 .. Len(DigitChars)}
DigitValue(c) == (CHOOSE i \in 1 .. Len(DigitChars) : DigitChars[i] = c) - 1

\* The AddBufButtons of the keypad that are pressed here, and those of them
\* the callback does not put a "+" before.
Keys == {"0", "2", "+", "*"}
Operators == {"+", "-", "*", "/", "(", ")"}

\* The buffer length above which AddBufButton refuses the key.
BUF_LIMIT == 100

\* _ans = None
NoAns == -1
\* solve() raised InvalidExpressionError
InvalidExpression == -2
\* No key pressed, no expression evaluated.
NoKey == ""
NoExpr == <<>>

CalcAtRest ==
    /\ calcBuf = <<>>
    /\ calcAns = NoAns
    /\ calcClearNext = TRUE
    /\ calcScreen = <<"-">>
    /\ calcKey = NoKey
    /\ calcExpr = NoExpr
    /\ calcChain = NoAns
    /\ calcPresses = 0

\* `if self._ans`: None and a Fraction equal to zero are both false.
AnsTruthy(ans) == ans # NoAns /\ ans # 0

\* str(Fraction) of a non-negative whole number: its decimal digits.
RECURSIVE Str(_)
Str(n) ==
    IF n < 10
    THEN <<DigitChars[n + 1]>>
    ELSE Str(n \div 10) \o <<DigitChars[(n % 10) + 1]>>

\* The pieces of s between the occurrences of sep.
RECURSIVE Split(_, _)
Split(s, sep) ==
    IF \A i \in 1 .. Len(s) : s[i] # sep
    THEN <<s>>
    ELSE LET i == CHOOSE k \in 1 .. Len(s) :
                      s[k] = sep /\ \A j \in 1 .. (k - 1) : s[j] # sep
         IN  <<SubSeq(s, 1, i - 1)>> \o Split(SubSeq(s, i + 1, Len(s)), sep)

IsNumber(ds) == ds # <<>> /\ \A i \in 1 .. Len(ds) : ds[i] \in DigitSet

RECURSIVE Number(_)
Number(ds) ==
    IF ds = <<>>
    THEN 0
    ELSE Number(SubSeq(ds, 1, Len(ds) - 1)) * 10 + DigitValue(ds[Len(ds)])

RECURSIVE Product(_)
Product(fs) == IF fs = <<>> THEN 1 ELSE Number(Head(fs)) * Product(Tail(fs))

RECURSIVE Sum(_)
Sum(ts) == IF ts = <<>> THEN 0 ELSE Product(Split(Head(ts), "*")) + Sum(Tail(ts))

\* Solver(expr).solve() on expressions of digits, "+" and "*": the value with
\* "*" binding tighter than "+", or the error on a missing operand.
Solve(expr) ==
    LET terms == Split(expr, "+")
    IN  IF \A i \in 1 .. Len(terms) :
               LET fs == Split(terms[i], "*")
               IN  \A j \in 1 .. Len(fs) : IsNumber(fs[j])
        THEN Sum(terms)
        ELSE InvalidExpression

\* CalculatorView.view_check: the buffer as the callback finds it.
CheckedBuf == IF calcClearNext THEN <<>> ELSE calcBuf

\* CalculatorView.refresh
Refresh(buf, ans) ==
    IF buf = <<>>
    THEN IF AnsTruthy(ans) THEN <<"Ans">> ELSE <<"-">>
    ELSE IF AnsTruthy(ans) THEN <<"Ans">> \o buf ELSE buf

\* AddBufButton.callback: the buffer with the key appended, after a "+" when
\* the buffer is empty, the answer is true and the key is not an operator.
AddedBuf(buf, ans, key) ==
    IF buf = <<>> /\ AnsTruthy(ans) /\ key \notin Operators
    THEN <<"+", key>>
    ELSE Append(buf, key)

\* EvalBufButton.callback: the buffer with the answer injected.
InjectedBuf(buf, ans) == IF AnsTruthy(ans) THEN Str(ans) \o buf ELSE buf

\* view_check, then AddBufButton.callback
AddBuf ==
    /\ UNCHANGED notCalcVars
    /\ calcPresses < MaxCalcPresses
    /\ calcPresses' = calcPresses + 1
    /\ calcClearNext' = FALSE
    /\ \E key \in Keys :
         /\ calcKey' = key
         /\ IF Len(CheckedBuf) > BUF_LIMIT
            THEN /\ calcBuf' = CheckedBuf
                 /\ UNCHANGED calcScreen
            ELSE /\ calcBuf' = AddedBuf(CheckedBuf, calcAns, key)
                 /\ calcScreen' = Refresh(calcBuf', calcAns)
    /\ UNCHANGED <<calcAns, calcExpr, calcChain>>
    /\ step' = "AddBuf"

\* view_check, then RemBufButton.callback
RemBuf ==
    /\ UNCHANGED notCalcVars
    /\ calcPresses < MaxCalcPresses
    /\ calcPresses' = calcPresses + 1
    /\ calcClearNext' = FALSE
    /\ IF CheckedBuf # <<>>
       THEN /\ calcBuf' = SubSeq(CheckedBuf, 1, Len(CheckedBuf) - 1)
            /\ UNCHANGED calcAns
       ELSE /\ calcBuf' = CheckedBuf
            /\ calcAns' = IF AnsTruthy(calcAns) THEN NoAns ELSE calcAns
    /\ calcScreen' = Refresh(calcBuf', calcAns')
    /\ calcChain' = NoAns
    /\ UNCHANGED <<calcKey, calcExpr>>
    /\ step' = "RemBuf"

\* view_check, then ClearBufButton.callback
ClearBuf ==
    /\ UNCHANGED notCalcVars
    /\ calcPresses < MaxCalcPresses
    /\ calcPresses' = calcPresses + 1
    /\ calcClearNext' = FALSE
    /\ calcBuf' = <<>>
    /\ calcAns' = NoAns
    /\ calcScreen' = Refresh(calcBuf', calcAns')
    /\ calcChain' = NoAns
    /\ UNCHANGED <<calcKey, calcExpr>>
    /\ step' = "ClearBuf"

\* view_check, then EvalBufButton.callback
EvalBuf ==
    /\ UNCHANGED notCalcVars
    /\ calcPresses < MaxCalcPresses
    /\ calcPresses' = calcPresses + 1
    /\ IF CheckedBuf = <<>>
       THEN /\ calcClearNext' = FALSE
            /\ calcBuf' = CheckedBuf
            /\ calcChain' = NoAns
            /\ UNCHANGED <<calcAns, calcScreen, calcExpr>>
       ELSE LET expr == InjectedBuf(CheckedBuf, calcAns)
                result == Solve(expr)
            IN  /\ calcBuf' = expr
                /\ calcExpr' = expr
                /\ IF result = InvalidExpression
                   THEN /\ calcScreen' = <<"ERR">>
                        /\ UNCHANGED calcAns
                        /\ calcChain' = NoAns
                   ELSE /\ calcAns' = result
                        /\ calcScreen' = expr \o <<"=">> \o Str(result)
                        /\ calcChain' = result
                /\ calcClearNext' = TRUE
    /\ UNCHANGED calcKey
    /\ step' = "EvalBuf"

\* -------------------------------------------------------------- tic tac toe
\* choices of the size option
BoardSizes == {3, 4, 5}

PLAYER_X == "X"
PLAYER_O == "O"
TIE == "tie"
NoWinner == "none"
NoCell == <<0, 0>>

EmptyBoard(size) == [y \in 1 .. size |-> [x \in 1 .. size |-> 0]]

\* The positions a game is followed from: the empty board of size 3 and, for
\* the sizes 4 and 5, a position of a game in progress with nine free cells,
\* O to move on size 4 (X has four marks, O three) and X on size 5 (eight
\* marks each).
Openings ==
    { EmptyBoard(3),
      << << 0,  0,  0, -1>>,
         << 0,  0,  0,  1>>,
         << 0,  0,  0, -1>>,
         <<-1,  1, -1,  1>> >>,
      << << 0,  0,  0, -1, -1>>,
         << 0,  0,  0,  1,  1>>,
         << 0,  0,  0, -1, -1>>,
         << 1, -1,  1, -1,  1>>,
         << 1, -1,  1,  1, -1>> >> }

Cells(size) == (1 .. size) \X (1 .. size)
Marked(board) == {c \in Cells(Len(board)) : board[c[1]][c[2]] # 0}
MarksOf(board, v) == Cardinality({c \in Cells(Len(board)) : board[c[1]][c[2]] = v})

TttAtRest ==
    /\ tttSize = 3
    /\ tttBoard = EmptyBoard(3)
    /\ tttCurrent = PLAYER_X
    /\ tttWinner = NoWinner
    /\ tttDisabled = {}
    /\ tttLast = NoCell

RECURSIVE SeqSum(_)
SeqSum(s) == IF s = <<>> THEN 0 ELSE Head(s) + SeqSum(Tail(s))

\* The lines check_winner and check_blocked walk through.
Row(board, y) == board[y]
Column(board, x) == [y \in 1 .. Len(board) |-> board[y][x]]
\* board[i][diag_offset] with diag_offset falling from size - 1
AntiDiagonal(board) == [i \in 1 .. Len(board) |-> board[i][Len(board) + 1 - i]]
\* board[i][diag_offset] with diag_offset rising from 0
Diagonal(board) == [i \in 1 .. Len(board) |-> board[i][i]]

\* `-1 in values and 1 in values`
HasBoth(line) ==
    /\ \E i \in 1 .. Len(line) : line[i] = -1
    /\ \E i \in 1 .. Len(line) : line[i] = 1

\* TicTacToeView.check_blocked
CheckBlocked(board) ==
    /\ \A y \in 1 .. Len(board) : HasBoth(Row(board, y))
    /\ \A x \in 1 .. Len(board) : HasBoth(Column(board, x))
    /\ HasBoth(AntiDiagonal(board))
    /\ HasBoth(Diagonal(board))

\* check_winner without its look at the columns.
CheckWinnerNoColumns(board, size) ==
    IF \E y \in 1 .. size : SeqSum(Row(board, y)) \in {size, -size}
    THEN LET y == CHOOSE r \in 1 .. size :
                      /\ SeqSum(Row(board, r)) \in {size, -size}
                      /\ \A q \in 1 .. (r - 1) : SeqSum(Row(board, q)) \notin {size, -size}
         IN  IF SeqSum(Row(board, y)) = size THEN PLAYER_O ELSE PLAYER_X
    ELSE IF SeqSum(AntiDiagonal(board)) = size \/ SeqSum(Diagonal(board)) = size
    THEN PLAYER_O
    ELSE IF SeqSum(AntiDiagonal(board)) = -size \/ SeqSum(Diagonal(board)) = -size
    THEN PLAYER_X
    ELSE IF CheckBlocked(board) THEN TIE ELSE NoWinner

\* TicTacToeView.check_winner: the first row whose sum is size or -size
\* decides, then the first such column, then the diagonals (O before X), then
\* check_blocked.
CheckWinner(board, size) ==
    IF \E y \in 1 .. size : SeqSum(Row(board, y)) \in {size, -size}
    THEN LET y == CHOOSE r \in 1 .. size :
                      /\ SeqSum(Row(board, r)) \in {size, -size}
                      /\ \A q \in 1 .. (r - 1) : SeqSum(Row(board, q)) \notin {size, -size}
         IN  IF SeqSum(Row(board, y)) = size THEN PLAYER_O ELSE PLAYER_X
    ELSE IF \E x \in 1 .. size : SeqSum(Column(board, x)) \in {size, -size}
    THEN LET x == CHOOSE c \in 1 .. size :
                      /\ SeqSum(Column(board, c)) \in {size, -size}
                      /\ \A q \in 1 .. (c - 1) : SeqSum(Column(board, q)) \notin {size, -size}
         IN  IF SeqSum(Column(board, x)) = size THEN PLAYER_O ELSE PLAYER_X
    ELSE IF SeqSum(AntiDiagonal(board)) = size \/ SeqSum(Diagonal(board)) = size
    THEN PLAYER_O
    ELSE IF SeqSum(AntiDiagonal(board)) = -size \/ SeqSum(Diagonal(board)) = -size
    THEN PLAYER_X
    ELSE IF CheckBlocked(board) THEN TIE ELSE NoWinner

\* `value in (view.size, -view.size)`
AlreadyClicked(value, size) == value \in {size, -size}

\* TicTacToeButton.callback by the current player on the button of cell
\* <<y, x>>. The platform passes on a click on a button that is not disabled,
\* and one on the button of the preceding move, made before the client showed
\* it disabled. The view is stopped once a result was declared.
TicTacToeClick ==
    /\ UNCHANGED notTttVars
    /\ tttWinner = NoWinner
    /\ \E cell \in Cells(tttSize) :
         /\ cell \notin tttDisabled \/ cell = tttLast
         /\ IF AlreadyClicked(tttBoard[cell[1]][cell[2]], tttSize)
            THEN UNCHANGED tttVars
            ELSE /\ tttBoard' = [tttBoard EXCEPT ![cell[1]][cell[2]] =
                                      IF tttCurrent = PLAYER_X THEN -1 ELSE 1]
                 /\ tttCurrent' = IF tttCurrent = PLAYER_X THEN PLAYER_O ELSE PLAYER_X
                 /\ tttWinner' = CheckWinner(tttBoard', tttSize)
                 /\ tttDisabled' = IF tttWinner' # NoWinner
                                   THEN Cells(tttSize)
                                   ELSE tttDisabled \cup {cell}
                 /\ tttLast' = cell
                 /\ UNCHANGED tttSize
    /\ step' = "TicTacToeClick"

\* ------------------------------------------------- user logger: the queue
\* Two log channels. An embed is its serial number and its total_length().
LogChannels == {"c1", "c2"}
NoChannel == "none"

IdleLoop == [pc |-> "sleep", size |-> 0, pos |-> 0, chunks |-> <<>>, idx |-> 0]

QueueAtRest ==
    /\ qKeys = <<>>
    /\ qQueue = [c \in LogChannels |-> <<>>]
    /\ qLoop = IdleLoop
    /\ qAttempts = [id \in 1 .. MaxQueued |-> 0]
    /\ qAccepted = 0

\* UserLogger.log, its last lines: a channel without a key gets one with an
\* empty list, then the embed is appended.
QueueLog ==
    /\ UNCHANGED notQueueVars
    /\ qAccepted < MaxQueued
    /\ qAccepted' = qAccepted + 1
    /\ \E channel \in LogChannels, len \in EmbedLengths :
         /\ qKeys' = IF \E i \in 1 .. Len(qKeys) : qKeys[i] = channel
                     THEN qKeys
                     ELSE Append(qKeys, channel)
         /\ qQueue' = [qQueue EXCEPT ![channel] =
                           Append(@, [id |-> qAccepted + 1, len |-> len])]
    /\ UNCHANGED <<qLoop, qAttempts>>
    /\ step' = "QueueLog"

\* _iter_queue, `for channel_id, embeds in self._queue.items()` from the
\* position after pos on: the iterator raises RuntimeError when the dict has
\* another size than at its creation; a channel with an empty list is passed
\* over; at a channel with embeds the chunks are built and the loop is
\* suspended in the first create_message; after the last key it sleeps.
RECURSIVE Iterate(_, _, _)
Iterate(queue, size, pos) ==
    IF Len(qKeys) # size
    THEN [IdleLoop EXCEPT !.pc = "ended"]
    ELSE IF pos >= Len(qKeys)
    THEN IdleLoop
    ELSE IF queue[qKeys[pos + 1]] = <<>>
    THEN Iterate(queue, size, pos + 1)
    ELSE [pc |-> "send", size |-> size, pos |-> pos + 1,
          chunks |-> EmbedChunks(queue[qKeys[pos + 1]]), idx |-> 1]

\* _iter_queue wakes from asyncio.sleep(10.0) and begins a pass.
QueueWake ==
    /\ UNCHANGED notQueueVars
    /\ qLoop.pc = "sleep"
    /\ \E c \in LogChannels : qQueue[c] # <<>>
    /\ qLoop' = Iterate(qQueue, Len(qKeys), 0)
    /\ UNCHANGED <<qKeys, qQueue, qAttempts, qAccepted>>
    /\ step' = "QueueWake"

\* _iter_queue: create_message with the current chunk returns or raises; the
\* next chunk follows, and after the last one the channel's list is replaced
\* by an empty one and the iteration goes on.
QueueSend ==
    /\ UNCHANGED notQueueVars
    /\ qLoop.pc = "send"
    /\ LET chunk == qLoop.chunks[qLoop.idx]
           queue == [qQueue EXCEPT ![qKeys[qLoop.pos]] = <<>>]
       IN  /\ qAttempts' = [id \in 1 .. MaxQueued |->
                               IF \E i \in 1 .. Len(chunk) : chunk[i].id = id
                               THEN qAttempts[id] + 1
                               ELSE qAttempts[id]]
           /\ IF qLoop.idx < Len(qLoop.chunks)
              THEN /\ qLoop' = [qLoop EXCEPT !.idx = @ + 1]
                   /\ UNCHANGED qQueue
              ELSE /\ qQueue' = queue
                   /\ qLoop' = Iterate(queue, qLoop.size, qLoop.pos)
    /\ \E ok \in BOOLEAN : step' = IF ok THEN "QueueSent" ELSE "QueueSendFailed"
    /\ UNCHANGED <<qKeys, qAccepted>>

\* ------------------------------------------------ user logger: the freezes
\* Operations that freeze a guild's logging for the time of their work, each
\* calling freeze_logging, later unfreeze_logging, which sleeps 5 seconds
\* before it takes the guild off the list.
FreezeOps == {"op1", "op2"}
FreezeGuilds == {"g1", "g2"}

FreezeAtRest ==
    /\ fzGuilds = {}
    /\ fzOps = [o \in FreezeOps |-> [pc |-> "idle", guild |-> "none"]]
    /\ fzRuns = 0

\* freeze_logging: the guild is appended unless it is on the list.
FreezeGuild ==
    /\ UNCHANGED notFreezeVars
    /\ fzRuns < MaxFreezes
    /\ fzRuns' = fzRuns + 1
    /\ \E o \in FreezeOps, g \in FreezeGuilds :
         /\ fzOps[o].pc = "idle"
         /\ fzOps' = [fzOps EXCEPT ![o] = [pc |-> "frozen", guild |-> g]]
         /\ fzGuilds' = IF g \notin fzGuilds THEN fzGuilds \cup {g} ELSE fzGuilds
    /\ step' = "FreezeGuild"

\* unfreeze_logging is called and goes to sleep.
UnfreezeGuild ==
    /\ UNCHANGED notFreezeVars
    /\ \E o \in FreezeOps :
         /\ fzOps[o].pc = "frozen"
         /\ fzOps' = [fzOps EXCEPT ![o].pc = "sleep"]
    /\ UNCHANGED <<fzGuilds, fzRuns>>
    /\ step' = "UnfreezeGuild"

\* unfreeze_logging after asyncio.sleep(5): the guild is removed if it is on
\* the list.
UnfreezeGuildWake ==
    /\ UNCHANGED notFreezeVars
    /\ \E o \in FreezeOps :
         /\ fzOps[o].pc = "sleep"
         /\ fzGuilds' = IF fzOps[o].guild \in fzGuilds
                        THEN fzGuilds \ {fzOps[o].guild}
                        ELSE fzGuilds
         /\ fzOps' = [fzOps EXCEPT ![o] = [pc |-> "idle", guild |-> "none"]]
    /\ UNCHANGED fzRuns
    /\ step' = "UnfreezeGuildWake"

\* ------------------------------------------------------------ warn counter
\* Calls of warn, remove_warn and clear_warns on one member. Each fetches the
\* profile, changes the warns of the object it got and writes it back with
\* db_user.update().
WarnTasks == 1 .. MaxWarnTasks
WarnKinds == {"warn", "remove_warn", "clear_warns"}
IdleWarn == [pc |-> "idle", kind |-> "none", warns |-> 0]

WarnAtRest ==
    /\ warnStored = 0
    /\ warnTasks = [t \in WarnTasks |-> IdleWarn]
    /\ warnsDone = 0
    /\ unwarnsBegun = 0
    /\ warnOps = 0

\* A call begins and awaits DatabaseUser.fetch, which returns the stored row.
WarnFetch(t) ==
    /\ UNCHANGED notWarnVars
    /\ warnTasks[t].pc = "idle"
    /\ warnOps < MaxWarnOps
    /\ warnOps' = warnOps + 1
    /\ \E kind \in WarnKinds :
         /\ warnTasks' = [warnTasks EXCEPT ![t] =
                              [pc |-> "fetched", kind |-> kind, warns |-> warnStored]]
         /\ unwarnsBegun' = IF kind = "warn" THEN unwarnsBegun ELSE unwarnsBegun + 1
    /\ UNCHANGED <<warnStored, warnsDone>>
    /\ step' = "WarnFetch"

\* The value the call gives db_user.warns before db_user.update(): warn adds
\* one, clear_warns sets 0, remove_warn takes one off.
UpdatedWarns(kind, warns) ==
    IF kind = "warn" THEN warns + 1
    ELSE IF kind = "clear_warns" THEN 0
    ELSE warns - 1

\* The call goes on after the fetch: remove_warn returns "No Warnings" when
\* the fetched count is not positive; otherwise db_user.update() writes the
\* changed count.
WarnUpdate(t) ==
    /\ UNCHANGED notWarnVars
    /\ warnTasks[t].pc = "fetched"
    /\ IF warnTasks[t].kind = "remove_warn" /\ warnTasks[t].warns <= 0
       THEN /\ UNCHANGED <<warnStored, warnsDone>>
            /\ step' = "NoWarnings"
       ELSE /\ warnStored' = UpdatedWarns(warnTasks[t].kind, warnTasks[t].warns)
            /\ warnsDone' = IF warnTasks[t].kind = "warn" THEN warnsDone + 1 ELSE warnsDone
            /\ step' = "WarnUpdate"
    /\ warnTasks' = [warnTasks EXCEPT ![t] = IdleWarn]
    /\ UNCHANGED <<unwarnsBegun, warnOps>>

\* --------------------------------------------------------- /reminder delete
\* The timers table of one guild, holding the timers of all features:
\* reminders belong to the user who created them, tempban and timeout_extend
\* timers carry the id of the punished user.
REMINDER == "reminder"
TimerEvents == {REMINDER, TEMPBAN, TIMEOUT_EXTEND}
TimerUsers == {"u1", "u2"}
NoDelCall == [user |-> "none", id |-> 0]

RemdelAtRest ==
    /\ rdTimers = {}
    /\ rdCall = NoDelCall
    /\ rdReply = "none"
    /\ rdOps = 0

\* Scheduler.create_timer, called by /reminder create, by a temporary ban or
\* by a timeout beyond the ceiling.
TimerCreated ==
    /\ UNCHANGED notRemdelVars
    /\ rdOps < MaxDelOps
    /\ rdOps' = rdOps + 1
    /\ \E event \in TimerEvents, user \in TimerUsers :
         rdTimers' = rdTimers \cup
             {NewTimer(rdOps + 1, 0, event, user, 0)}
    /\ UNCHANGED <<rdCall, rdReply>>
    /\ step' = "TimerCreated"

\* Scheduler.cancel_timer(id, guild_id, user_id): the row with this id and
\* this user is deleted; ValueError when there is none.
CancelTimer(rows, id, user) ==
    {t \in rows : ~(t.id = id /\ t.user = user)}

\* reminder_del: cancel_timer with the given id and the invoker's id, "not
\* found" on ValueError.
ReminderDel ==
    /\ UNCHANGED notRemdelVars
    /\ rdOps < MaxDelOps
    /\ rdOps' = rdOps + 1
    /\ \E user \in TimerUsers, id \in 1 .. MaxDelOps :
         /\ rdCall' = [user |-> user, id |-> id]
         /\ rdTimers' = CancelTimer(rdTimers, id, user)
         /\ rdReply' = IF rdTimers' = rdTimers THEN "not_found" ELSE "deleted"
    /\ step' = "ReminderDel"

\* ----------------------------------------------------------------- /restore
NoRestore == [pgdmp |-> FALSE, ignore |-> FALSE, code |-> 0, restarted |-> FALSE]
\* Exit codes of pg_restore: success and failure.
ExitCodes == {0, 1}

RestoreAtRest ==
    /\ cacheRunning = TRUE
    /\ botRunning = TRUE
    /\ schedRestarts = 0
    /\ rsCall = NoRestore
    /\ rsReply = "none"
    /\ rsRuns = 0

\* restore_db: a file whose name ends in ".pgdmp" is turned down; otherwise
\* the cache is stopped, the tables are dropped and pg_restore runs. A failed
\* replay closes the app unless ignore_errors is set, in which case only a
\* warning is sent; the schema update, db_cache.start() and
\* scheduler.restart() are in the branch of exit code 0.
RestoreDb ==
    /\ UNCHANGED notRestoreVars
    /\ botRunning
    /\ rsRuns < MaxRestores
    /\ rsRuns' = rsRuns + 1
    /\ \E pgdmp \in BOOLEAN, ignore \in BOOLEAN, code \in ExitCodes :
         IF pgdmp
         THEN /\ rsCall' = [pgdmp |-> pgdmp, ignore |-> ignore, code |-> 0, restarted |-> FALSE]
              /\ rsReply' = "no_valid_attachment"
              /\ UNCHANGED <<cacheRunning, botRunning, schedRestarts>>
         ELSE IF code # 0 /\ ~ignore
         THEN /\ rsCall' = [pgdmp |-> pgdmp, ignore |-> ignore, code |-> code, restarted |-> FALSE]
              /\ rsReply' = "shutting_down"
              /\ cacheRunning' = FALSE
              /\ botRunning' = FALSE
              /\ UNCHANGED schedRestarts
         ELSE IF code # 0
         THEN /\ rsCall' = [pgdmp |-> pgdmp, ignore |-> ignore, code |-> code, restarted |-> FALSE]
              /\ rsReply' = "shutdown_recommended"
              /\ cacheRunning' = FALSE
              /\ UNCHANGED <<botRunning, schedRestarts>>
         ELSE /\ rsCall' = [pgdmp |-> pgdmp, ignore |-> ignore, code |-> code, restarted |-> TRUE]
              /\ rsReply' = "restored"
              /\ cacheRunning' = TRUE
              /\ schedRestarts' = schedRestarts + 1
              /\ UNCHANGED botRunning
    /\ step' = "RestoreDb"

\* Every later feature in its state after construction.
LaterAtRest ==
    /\ AuditAtRest
    /\ ErrAtRest
    /\ RbAtRest
    /\ ClickAtRest
    /\ BtnAtRest
    /\ RepAtRest
    /\ DevAtRest
    /\ DiffAtRest
    /\ CalcAtRest
    /\ TttAtRest
    /\ QueueAtRest
    /\ FreezeAtRest
    /\ WarnAtRest
    /\ RemdelAtRest
    /\ RestoreAtRest

\* Every feature but one in its state after construction.
NotRepAtRest ==
    /\ TimeoutAtRest /\ BanAtRest /\ StarAtRest /\ TagsAtRest /\ RemAtRest /\ LogAtRest
    /\ AuditAtRest
    /\ ErrAtRest
    /\ RbAtRest
    /\ ClickAtRest
    /\ BtnAtRest
    /\ DevAtRest
    /\ DiffAtRest
    /\ CalcAtRest
    /\ TttAtRest
    /\ QueueAtRest
    /\ FreezeAtRest
    /\ WarnAtRest
    /\ RemdelAtRest
    /\ RestoreAtRest

\* Every feature but one in its state after construction.
NotTttAtRest ==
    /\ TimeoutAtRest /\ BanAtRest /\ StarAtRest /\ TagsAtRest /\ RemAtRest /\ LogAtRest
    /\ AuditAtRest
    /\ ErrAtRest
    /\ RbAtRest
    /\ ClickAtRest
    /\ BtnAtRest
    /\ RepAtRest
    /\ DevAtRest
    /\ DiffAtRest
    /\ CalcAtRest
    /\ QueueAtRest
    /\ FreezeAtRest
    /\ WarnAtRest
    /\ RemdelAtRest
    /\ RestoreAtRest

\* ---------------------------------------------------------- specifications
NextFlush ==
    \/ LogEmbed
    \/ FlushStart
    \/ FlushSend

InitFlush ==
    /\ TimeoutAtRest /\ BanAtRest /\ StarAtRest /\ TagsAtRest /\ RemAtRest /\ LogAtRest /\ LaterAtRest
    /\ step = "Init"

SpecFlush == InitFlush /\ [][NextFlush]_vars

NextFreeze ==
    \/ FreezeLogging
    \/ UnfreezeLogging
    \/ UnfreezeWake
    \/ GuildEvent
    \/ HandlerLog
    \/ LogBypass
    \/ LogTick

InitFreeze ==
    /\ TimeoutAtRest /\ BanAtRest /\ StarAtRest /\ TagsAtRest /\ RemAtRest /\ LogAtRest /\ LaterAtRest
    /\ step = "Init"

SpecFreeze == InitFreeze /\ [][NextFreeze]_vars

NextReminder ==
    \/ ReminderCreate
    \/ ReminderRespond
    \/ ReminderBackfill
    \/ \E u \in RemUsers : ReminderClick(u)
    \/ \E u \in RemUsers : ReminderGet(u)
    \/ \E u \in RemUsers : ReminderUpdate(u)
    \/ ReminderFire
    \/ OnReminder

\* The button handlers alone, on a pending reminder that many users have
\* joined already.
EarlierRecipients(k) == [i \in 1 .. k |-> 100 + i]

NextReminderCap ==
    \/ \E u \in RemUsers : ReminderClick(u)
    \/ \E u \in RemUsers : ReminderGet(u)
    \/ \E u \in RemUsers : ReminderUpdate(u)
    \/ ReminderFire
    \/ OnReminder

InitReminderCap ==
    /\ TimeoutAtRest /\ BanAtRest /\ StarAtRest /\ TagsAtRest /\ LogAtRest /\ LaterAtRest
    /\ \E k \in 47 .. 50 :
         remTimer = [exists |-> TRUE,
                     notes |-> [recipients |-> EarlierRecipients(k), jump |-> TRUE]]
    /\ remCmd = IdleCreate
    /\ remShown = TRUE
    /\ remJoin = [u \in RemUsers |-> IdleJoin]
    /\ remFire = IdleFire
    /\ pinged = {}
    /\ joined = {}
    /\ remOps = 0
    /\ step = "Init"

SpecReminderCap == InitReminderCap /\ [][NextReminderCap]_vars

InitReminder ==
    TimeoutAtRest /\ BanAtRest /\ StarAtRest /\ TagsAtRest /\ RemAtRest /\ LogAtRest /\ LaterAtRest /\ step = "Init"

SpecReminder == InitReminder /\ [][NextReminder]_vars

NextTags ==
    \/ \E t \in TagTasks : TagCreateCommand(t)
    \/ \E t \in TagTasks : TagCreateCheck(t)
    \/ \E t \in TagTasks : TagCreateWrite(t)
    \/ \E t \in TagTasks : TagAliasCommand(t)
    \/ \E t \in TagTasks : TagAliasCheck(t)
    \/ \E t \in TagTasks : TagAliasFetch(t)
    \/ \E t \in TagTasks : TagDelaliasCommand(t)
    \/ \E t \in TagTasks : TagDelaliasFetch(t)
    \/ \E t \in TagTasks : TagUpdate(t)
    \/ \E t \in TagTasks : TagTransferCommand(t)
    \/ \E t \in TagTasks : TagTransferFetch(t)
    \/ \E t \in TagTasks : TagEditCommand(t)
    \/ \E t \in TagTasks : TagEditFetch(t)
    \/ \E t \in TagTasks : TagEditSubmit(t)
    \/ \E t \in TagTasks : TagDeleteCommand(t)
    \/ \E t \in TagTasks : TagDeleteFetch(t)
    \/ \E t \in TagTasks : TagDeleteWrite(t)

\* The alias commands alone, started from a guild where u1's tag "foo"
\* already has some aliases.
EarlierAliases == <<"a1", "a2", "a3", "a4", "a5">>

TagsWithAliases(k) ==
    /\ tagStore = [n \in TagNames |->
                     IF n = "foo"
                     THEN [exists |-> TRUE, owner |-> "u1",
                           aliases |-> SubSeq(EarlierAliases, 1, k), content |-> "created"]
                     ELSE NoTag]
    /\ tagTask = [t \in TagTasks |-> IdleTag]
    /\ tagOps = 0

NextAliasCap ==
    \/ \E t \in TagTasks : TagAliasCommand(t)
    \/ \E t \in TagTasks : TagAliasCheck(t)
    \/ \E t \in TagTasks : TagAliasFetch(t)
    \/ \E t \in TagTasks : TagDelaliasCommand(t)
    \/ \E t \in TagTasks : TagDelaliasFetch(t)
    \/ \E t \in TagTasks : TagUpdate(t)

InitAliasCap ==
    /\ TimeoutAtRest /\ BanAtRest /\ StarAtRest /\ RemAtRest /\ LogAtRest /\ LaterAtRest
    /\ \E k \in 0 .. Len(EarlierAliases) : TagsWithAliases(k)
    /\ step = "Init"

SpecAliasCap == InitAliasCap /\ [][NextAliasCap]_vars

NextTagsOld ==
    \/ \E t \in TagTasks : OldTagCreateCommand(t)
    \/ \E t \in TagTasks : OldTagCreateCheck(t)
    \/ \E t \in TagTasks : OldTagAliasCommand(t)
    \/ \E t \in TagTasks : OldTagAliasCheck(t)
    \/ \E t \in TagTasks : OldTagAliasFetch(t)
    \/ \E t \in TagTasks : OldTagTransferCommand(t)
    \/ \E t \in TagTasks : OldTagEditCommand(t)
    \/ \E t \in TagTasks : OldTagFetch(t)
    \/ \E t \in TagTasks : OldTagDelete(t)
    \/ \E t \in TagTasks : OldTagCreate(t)

InitTagsOld == TimeoutAtRest /\ BanAtRest /\ StarAtRest /\ TagsAtRest /\ RemAtRest /\ LogAtRest /\ LaterAtRest /\ step = "Init"

SpecTagsOld == InitTagsOld /\ [][NextTagsOld]_vars

InitTags == TimeoutAtRest /\ BanAtRest /\ StarAtRest /\ TagsAtRest /\ RemAtRest /\ LogAtRest /\ LaterAtRest /\ step = "Init"

SpecTags == InitTags /\ [][NextTags]_vars

NextBan ==
    \/ \E b \in BanTasks : BanBegin(b)
    \/ \E b \in BanTasks : BanFetch(b)
    \/ \E b \in BanTasks : BanCancel(b)
    \/ \E b \in BanTasks : BanFinish(b)
    \/ TempbanExpire
    \/ Unban
    \/ BanTick

InitBan == TimeoutAtRest /\ BanAtRest /\ StarAtRest /\ TagsAtRest /\ RemAtRest /\ LogAtRest /\ LaterAtRest /\ step = "Init"

SpecBan == InitBan /\ [][NextBan]_vars

NextStar ==
    \/ \E t \in StarTasks : ReactionEvent(t)
    \/ \E t \in StarTasks : ForceCommand(t)
    \/ \E t \in StarTasks : ReactionBegin(t)
    \/ \E t \in StarTasks : ForceBegin(t)
    \/ \E t \in StarTasks : StarFetchEntry(t)
    \/ \E t \in StarTasks : StarPost(t)
    \/ \E t \in StarTasks : StarSave(t)
    \/ \E t \in StarTasks : StarDelete(t)
    \/ DeleteShowcase
    \/ DeleteStarboardChannel

InitStar == TimeoutAtRest /\ BanAtRest /\ StarAtRest /\ TagsAtRest /\ RemAtRest /\ LogAtRest /\ LaterAtRest /\ step = "Init"

SpecStar == InitStar /\ [][NextStar]_vars

NextTimeout ==
    \/ Tick
    \/ TimeoutBegin
    \/ TimeoutEdit
    \/ Fire
    \/ ExtStart
    \/ ExtEdit
    \/ ExtStash
    \/ MemberLeave
    \/ MemberJoin
    \/ RjStart
    \/ RjUpdate
    \/ RjApply
    \/ RjEdit
    \/ RemoveTimeout
    \/ RmFetch
    \/ RmCancel
    \/ ToggleCanHarm

InitTimeout == TimeoutAtRest /\ BanAtRest /\ StarAtRest /\ TagsAtRest /\ RemAtRest /\ LogAtRest /\ LaterAtRest /\ step = "Init"

SpecTimeout == InitTimeout /\ [][NextTimeout]_vars

TypeOKTimeout ==
    /\ now >= StartTime
    /\ cdu >= 0
    /\ \A t \in timers : t.event = TIMEOUT_EXTEND /\ t.id < nextTimerId

NextAudit ==
    \/ ModGatewayEvent
    \/ AuditEntryArrives
    \/ ModListenerWake
    \/ AuditTick

InitAudit == TimeoutAtRest /\ BanAtRest /\ StarAtRest /\ TagsAtRest /\ RemAtRest /\ LogAtRest /\ LaterAtRest /\ step = "Init"

SpecAudit == InitAudit /\ [][NextAudit]_vars

NextErrors ==
    \/ CommandRuns
    \/ ApplicationErrorHandler

InitErrors == TimeoutAtRest /\ BanAtRest /\ StarAtRest /\ TagsAtRest /\ RemAtRest /\ LogAtRest /\ LaterAtRest /\ step = "Init"

SpecErrors == InitErrors /\ [][NextErrors]_vars

NextRolebutton ==
    \/ RolebuttonAdd
    \/ RolebuttonEdit

InitRolebutton == TimeoutAtRest /\ BanAtRest /\ StarAtRest /\ TagsAtRest /\ RemAtRest /\ LogAtRest /\ LaterAtRest /\ step = "Init"

SpecRolebutton == InitRolebutton /\ [][NextRolebutton]_vars

NextClicks ==
    \/ RolebuttonClick
    \/ ClickTick

InitClicks == TimeoutAtRest /\ BanAtRest /\ StarAtRest /\ TagsAtRest /\ RemAtRest /\ LogAtRest /\ LaterAtRest /\ step = "Init"

SpecClicks == InitClicks /\ [][NextClicks]_vars

NextModButtons ==
    \/ \E t \in BtnTasks : ModButtonClick(t)
    \/ \E t \in BtnTasks : ModButtonAct(t)
    \/ \E t \in BtnTasks : ModButtonDisable(t)

InitModButtons == TimeoutAtRest /\ BanAtRest /\ StarAtRest /\ TagsAtRest /\ RemAtRest /\ LogAtRest /\ LaterAtRest /\ step = "Init"

SpecModButtons == InitModButtons /\ [][NextModButtons]_vars

NextReports ==
    \/ Report
    \/ OldReport
    \/ ReportsChannelChange

\* The guild's reports configuration is whatever was persisted earlier.
InitReports ==
    /\ NotRepAtRest
    /\ \E enabled \in BOOLEAN :
         /\ repRow = [is_enabled |-> enabled]
         /\ repCached = [is_enabled |-> enabled]
    /\ repChannel \in BOOLEAN
    /\ repCall = NoRepCall
    /\ repReply = "none"
    /\ repError = "none"
    /\ repSent = 0
    /\ repOps = 0
    /\ step = "Init"

SpecReports == InitReports /\ [][NextReports]_vars

NextDev ==
    \/ SendPaginated

InitDev == TimeoutAtRest /\ BanAtRest /\ StarAtRest /\ TagsAtRest /\ RemAtRest /\ LogAtRest /\ LaterAtRest /\ step = "Init"

SpecDev == InitDev /\ [][NextDev]_vars

NextDiff ==
    \/ GetDiff

InitDiff == TimeoutAtRest /\ BanAtRest /\ StarAtRest /\ TagsAtRest /\ RemAtRest /\ LogAtRest /\ LaterAtRest /\ step = "Init"

SpecDiff == InitDiff /\ [][NextDiff]_vars

NextCalc ==
    \/ AddBuf
    \/ RemBuf
    \/ ClearBuf
    \/ EvalBuf

InitCalc == TimeoutAtRest /\ BanAtRest /\ StarAtRest /\ TagsAtRest /\ RemAtRest /\ LogAtRest /\ LaterAtRest /\ step = "Init"

SpecCalc == InitCalc /\ [][NextCalc]_vars

NextTicTacToe ==
    \/ TicTacToeClick

\* A game on one of the opening positions, the marked cells disabled.
InitTicTacToe ==
    /\ NotTttAtRest
    /\ \E board \in Openings :
         /\ tttSize = Len(board)
         /\ tttBoard = board
         /\ tttCurrent = IF MarksOf(board, -1) = MarksOf(board, 1) THEN PLAYER_X ELSE PLAYER_O
         /\ tttDisabled = Marked(board)
    /\ tttWinner = NoWinner
    /\ tttLast = NoCell
    /\ step = "Init"

SpecTicTacToe == InitTicTacToe /\ [][NextTicTacToe]_vars

NextQueue ==
    \/ QueueLog
    \/ QueueWake
    \/ QueueSend

InitQueue == TimeoutAtRest /\ BanAtRest /\ StarAtRest /\ TagsAtRest /\ RemAtRest /\ LogAtRest /\ LaterAtRest /\ step = "Init"

SpecQueue == InitQueue /\ [][NextQueue]_vars

NextFreezes ==
    \/ FreezeGuild
    \/ UnfreezeGuild
    \/ UnfreezeGuildWake

InitFreezes == TimeoutAtRest /\ BanAtRest /\ StarAtRest /\ TagsAtRest /\ RemAtRest /\ LogAtRest /\ LaterAtRest /\ step = "Init"

SpecFreezes == InitFreezes /\ [][NextFreezes]_vars

\* The timeout feature on a profile that may carry another flag already.
OtherFlags == {"OTHER_FLAG"}

InitProfileFlags ==
    /\ BanAtRest /\ StarAtRest /\ TagsAtRest /\ RemAtRest /\ LogAtRest /\ LaterAtRest
    /\ now = StartTime
    /\ timers = {}
    /\ nextTimerId = 1
    /\ cdu = 0
    /\ inGuild = TRUE
    /\ canHarm = TRUE
    /\ dbFlags \in SUBSET OtherFlags
    /\ dbExpiry = NoExpiry
    /\ tcmd = IdleTimeout
    /\ ext = IdleExtend
    /\ rj = IdleRejoin
    /\ rm = IdleRemove
    /\ cmds = 0
    /\ removalProcessed = FALSE
    /\ step = "Init"

SpecProfileFlags == InitProfileFlags /\ [][NextTimeout]_vars

NextWarn ==
    \/ \E t \in WarnTasks : WarnFetch(t)
    \/ \E t \in WarnTasks : WarnUpdate(t)

InitWarn == TimeoutAtRest /\ BanAtRest /\ StarAtRest /\ TagsAtRest /\ RemAtRest /\ LogAtRest /\ LaterAtRest /\ step = "Init"

SpecWarn == InitWarn /\ [][NextWarn]_vars

NextReminderDel ==
    \/ TimerCreated
    \/ ReminderDel

InitReminderDel == TimeoutAtRest /\ BanAtRest /\ StarAtRest /\ TagsAtRest /\ RemAtRest /\ LogAtRest /\ LaterAtRest /\ step = "Init"

SpecReminderDel == InitReminderDel /\ [][NextReminderDel]_vars

NextRestore ==
    \/ RestoreDb

InitRestore == TimeoutAtRest /\ BanAtRest /\ StarAtRest /\ TagsAtRest /\ RemAtRest /\ LogAtRest /\ LaterAtRest /\ step = "Init"

SpecRestore == InitRestore /\ [][NextRestore]_vars

\* ------------------------------------------------- claims: timeout chunking
\* The step adds exactly one timeout_extend timer for the member, expiring
\* at `expires` and carrying `notes`, and cancels none.
OneTimerAdded(expires, notes) ==
    \E t \in timers' :
        /\ t \notin timers
        /\ timers' = timers \cup {t}
        /\ t.event = TIMEOUT_EXTEND
        /\ t.user = Member
        /\ t.expires = expires
        /\ t.notes = notes

\* C1: a timeout of d seconds from now on a punishable member: if
\* d <= 2,246,400 the native field becomes now + d and no timer is created;
\* if d > 2,246,400 exactly one timeout_extend timer is created, expiring at
\* now + 2,246,400 with the true expiry in its notes, and the field becomes
\* now + 2,246,400 (now being the clock at the respective call).
C1_TimeoutChunking ==
    [][ /\ (tcmd.pc = "idle" /\ step' \in {"TimeoutDirect", "TimeoutTimer"}) =>
            LET d == tcmd'.duration - now IN
            /\ d \in Durations
            /\ d <= 2246400 =>
                 /\ step' = "TimeoutDirect"
                 /\ cdu' = now + d
                 /\ timers' = timers
            /\ d > 2246400 =>
                 /\ step' = "TimeoutTimer"
                 /\ OneTimerAdded(now + 2246400, now + d)
                 /\ cdu' = cdu
        /\ (tcmd.pc = "edit" /\ step' = "TimeoutChunk") =>
            /\ cdu' = now + 2246400
            /\ timers' = timers
      ]_vars

\* A chunked timeout has been applied: the field holds the ceiling and the
\* timer carries the later, true expiry.
C1_Witness ==
    /\ step = "TimeoutChunk"
    /\ cdu = now + 2246400
    /\ \E t \in timers : t.expires = cdu /\ t.notes > cdu

\* C2: a timeout_extend timer fires for a member who is in the guild and
\* punishable: if the carried expiry is more than 2,246,400 seconds away,
\* exactly one new timer with the same notes is created and the field
\* becomes now + 2,246,400; otherwise the field becomes the carried expiry
\* and no timer is created.
C2_ExtendChunking ==
    [][ /\ (ext.pc = "start" /\ inGuild /\ canHarm) =>
            LET remaining == ext.timer.notes - now IN
            /\ step' \in {"ExtTimer", "ExtFinal", "ExtFailed"} \/ ext' = ext
            /\ (remaining > 2246400 /\ ext' # ext) =>
                 /\ step' = "ExtTimer"
                 /\ OneTimerAdded(now + 2246400, ext.timer.notes)
            /\ (remaining <= 2246400 /\ ext' # ext /\ step' # "ExtFailed") =>
                 /\ step' = "ExtFinal"
                 /\ cdu' = ext.timer.notes
                 /\ timers' = timers
        /\ (ext.pc = "edit" /\ step' = "ExtChunk") =>
            /\ cdu' = now + 2246400
            /\ timers' = timers
      ]_vars

\* The last chunk has been applied: the field ends at an expiry that lies
\* more than one ceiling after the start, and no timer is left.
C2_Witness ==
    /\ step = "ExtFinal"
    /\ cdu > StartTime + 2246400
    /\ timers = {}

\* C3: on rejoin with the pending flag and stashed expiry E: E past: nothing
\* applied; E - now <= 2,246,400: the field becomes E, no timer;
\* E - now > 2,246,400: one timer carrying E, the field becomes now + 2,246,400.
C3_RejoinChunking ==
    [][ /\ (rj.pc = "apply" /\ rj' # rj /\ step' # "RjFailed") =>
            LET E == rj.expiry IN
            /\ E < now => (cdu' = cdu /\ timers' = timers)
            /\ (E >= now /\ E - now <= 2246400) => (cdu' = E /\ timers' = timers)
            /\ E - now > 2246400 => OneTimerAdded(now + 2246400, E)
        /\ (rj.pc = "edit" /\ step' = "RjChunk") =>
            /\ cdu' = now + 2246400
            /\ timers' = timers
      ]_vars

\* C4: once remove_timeout_extensions has processed an observed removal, no
\* timeout_extend timer is pending for the member.
C4_NoTimerAfterRemoval ==
    removalProcessed => TimersOf(Member, TIMEOUT_EXTEND) = {}

\* --------------------------------------------------------- claims: tempban
\* C5: when a tempban completes, exactly one tempban timer is pending for
\* the user and it expires at that tempban's expiry.
C5_OneTempbanTimer ==
    [][ \A b \in BanTasks :
          (bans[b].pc = "finish" /\ bans[b].kind = "temp" /\ bans'[b].pc = "idle") =>
              LET pending == {t \in timers' : t.user = Member /\ t.event = TEMPBAN} IN
              \E t \in pending : pending = {t} /\ t.expires = bans[b].duration
      ]_vars

\* ------------------------------------------------------- claims: starboard
\* C6: at any time at most one starboard entry and one showcase message
\* exist for the original message.
C6_OneShowcase ==
    Cardinality(showcase) <= 1

\* C7: once a row with force_starred = true has been stored for the message,
\* the message's row has force_starred = true in every later state.
C7_ForcedIsSticky ==
    wasForced => (entry = NoEntry \/ entry.forced)

\* C8: when force-star succeeds, the message has a stored entry with
\* force_starred = true.
C8_ForceStoresFlag ==
    [][ \A t \in StarTasks :
          (stask[t].cmd = "force" /\ stask'[t].pc = "idle" /\ step' = "ForceStarred"
             /\ sbChannel' = "ok") =>
              (entry' # NoEntry /\ entry'.forced)
      ]_vars

\* C9: when the edit of the showcase message fails with not-found while the
\* star condition holds, the call ends with a fresh entry whose showcase
\* message exists.
C9_RecreatedAfterNotFound ==
    [][ \A t \in StarTasks :
          (stask[t].recovering /\ stask'[t].pc = "idle" /\ sbChannel' = "ok") =>
              (entry' # NoEntry /\ entry'.msg \in {m.id : m \in showcase'})
      ]_vars

\* ------------------------------------------------------------ claims: tags
\* C10: no case-folded string is the name or an alias of two different tags
\* of the guild.
C10_NamesAndAliasesDisjoint ==
    \A n1, n2 \in TagNames :
        (n1 # n2 /\ tagStore[n1].exists /\ tagStore[n2].exists) =>
            ({n1} \cup AliasSet(tagStore[n1])) \cap ({n2} \cup AliasSet(tagStore[n2])) = {}

\* C11: every tag has at most 5 aliases.
C11_AtMostFiveAliases ==
    \A n \in TagNames : Len(tagStore[n].aliases) <= 5

\* C12: a tag that alias, transfer or edit is changing exists in storage at
\* every instant of the change.
C12_TagNeverVanishes ==
    \A t \in TagTasks :
        (tagTask[t].cmd \in {"old_alias", "old_transfer", "old_edit"}
           /\ tagTask[t].pc \in {"delete", "recreate"}) =>
            tagStore[tagTask[t].tag].exists

\* C13: edit overwrites a tag's content only if the invoker owns the tag at
\* the moment the new content is written, and delete removes a tag only if
\* the invoker owns it or holds MANAGE_MESSAGES at that moment.
C13_WriteOnlyByOwner ==
    [][ \A t \in TagTasks :
          /\ (tagTask[t].pc = "modal" /\ tagTask'[t].pc = "idle" /\ step' = "TagEdited") =>
                 tagStore[tagTask[t].tag].owner = tagTask[t].user
          /\ (tagTask[t].pc = "delete" /\ tagTask'[t].pc = "idle"
                /\ tagStore[tagTask[t].tag].exists) =>
                 (tagStore[tagTask[t].tag].owner = tagTask[t].user \/ tagTask[t].manage)
      ]_vars

\* ------------------------------------------------------- claims: reminders
\* C14: a user who was told they were added before the reminder fired, and
\* did not leave again, is mentioned in the notification sent to the channel.
C14_JoinedArePinged ==
    remFire.pc = "sent" => joined \subseteq pinged

\* C15: the reminder's additional-recipient list never holds more than 50
\* users.
C15_AtMostFiftyRecipients ==
    Len(remTimer.notes.recipients) <= 50

\* C16: with an acceptable message and a parseable time, /reminder create
\* creates the timer exactly when the time is at least 10 seconds and at
\* most 5 years from now.
C16_TimeWindow ==
    [][ (step' \in {"ReminderCreated", "ReminderTooFar", "ReminderTooShort"}
           /\ remOps' = remOps + 1) =>
            ((step' = "ReminderCreated") <=>
                (remCmd'.when >= 10 /\ remCmd'.when <= 157680000))
      ]_vars

\* C17: /reminder create rejects the message exactly when it is longer than
\* 1000 characters.
C17_MessageLength ==
    [][ (step' \in {"ReminderCreated", "ReminderTooFar", "ReminderTooShort",
                    "ReminderInvalidTime", "ReminderTooLong"}
           /\ remOps' = remOps + 1) =>
            ((step' = "ReminderTooLong") <=> (remCmd'.len > 1000))
      ]_vars

\* ----------------------------------------------------- claims: user logger
\* C18: a message sent to the log channel has at most 10 embeds, of a
\* combined length of at most 6000.
C18_MessageWithinLimits ==
    Len(lastSent) <= 10 /\ TotalLength(lastSent) <= 6000

C18_Witness ==
    /\ Len(lastSent) = 10
    /\ flush.pc = "send"
    /\ flush.idx = 2

\* C19: embeds are delivered in the order in which they were appended: within
\* a message by rising serial number, and after everything delivered before.
C19_DeliveredInOrder ==
    /\ \A i, j \in 1 .. Len(lastSent) : i < j => lastSent[i].id < lastSent[j].id
    /\ \A i \in 1 .. Len(lastSent) : lastSent[i].id > delivered

C19_Witness ==
    /\ delivered > 0
    /\ Len(lastSent) >= 2
    /\ step = "LogSent"

\* C20: no embed caused by an event that happened while the guild was frozen
\* is in the queue.
C20_NothingFromFreeze ==
    \A i \in 1 .. Len(logQueue) : ~logQueue[i].tainted

\* ---------------------------------------------- claims: moderation events
\* The events whose log is correlated with the audit log.
Correlated == {"ban", "unban", "kick", "timeout", "timeout_remove"}

\* An entry of the event's type that appeared within 15 seconds of the event.
AppearedInTime ==
    {e \in auditCache : /\ e.type = EntryType(modTask.kind)
                        /\ e.created >= modTask.at
                        /\ e.created <= modTask.at + 15}

\* C21: once 15 seconds have passed since a correlated event, its listener
\* has produced an embed: one that names the real moderator if a matching
\* entry appeared in those 15 seconds, and one that says the audit logs could
\* not be viewed if none did.
C21_ModeratorOrUnreadable ==
    (/\ modTask.pc = "done"
     /\ modTask.kind \in Correlated
     /\ auditNow >= modTask.at + 15)
    => /\ modEmbed # NoEmbed
       /\ IF AppearedInTime # {}
          THEN \E e \in AppearedInTime : modEmbed.moderator = ModeratorOf(e)
          ELSE modEmbed.reason = "unable to view"

\* C22: a finished listener has appended a journal entry for its event,
\* except for the bot's automatic timeout extension, which appends none.
C22_JournalAlways ==
    modTask.pc = "done" =>
        IF modTask.kind = "retimeout" THEN journal = <<>>
        ELSE Len(journal) = 1

\* ---------------------------------------------------- claims: error handler
\* The exceptions that say the caller or the bot lacks a permission.
PermissionErrors == {"arc.InvokerMissingPermissionsError", "arc.BotMissingPermissionsError",
                     "lightbulb.BotMissingRequiredPermission"}

\* C23: an exception about a missing permission is answered with an ephemeral
\* "missing permissions" response, never with "Unhandled exception".
C23_MissingPermissionsAnswered ==
    step \in PermissionErrors =>
        /\ cmdResponse.title \in {"Missing Permissions", "Bot Missing Permissions"}
        /\ cmdResponse.ephemeral

\* ----------------------------------------------------- claims: role buttons
\* The role of the call must be rejected: it is managed, the premium
\* subscriber role or the guild's own, or it is at or above the invoker's top
\* role and the invoker is not the owner.
MustReject(call) ==
    /\ call.role # NoRole
    /\ \/ call.role.managed
       \/ call.role.premium
       \/ call.role.everyone
       \/ call.role.position >= TopPosition /\ ~call.owner

\* C24: a /rolebutton add or edit whose role must be rejected is answered
\* with a rejection and changes neither the button's row nor the live message.
C24_IneligibleRoleRejected ==
    [][(step' \in {"RolebuttonAdd", "RolebuttonEdit"} /\ MustReject(rbCall'))
       => /\ rbReply' \in {"Role is managed", "Role Hierarchy Error", "Caching error", "Not found"}
          /\ rbButton' = rbButton
          /\ rbMessage' = rbMessage]_vars

C24_Witness ==
    /\ step = "RolebuttonEdit"
    /\ rbButton.exists
    /\ rbCall.label = "new"
    /\ rbButton.label = "old"
    /\ rbCall.role.position = TopPosition
    /\ ~rbCall.role.managed /\ ~rbCall.role.premium /\ ~rbCall.role.everyone
    /\ ~rbCall.owner
    /\ rbReply = "Role Hierarchy Error"

\* C25: a click is answered with "Slow Down!" exactly when the member already
\* had 2 clicks accepted within the last second, and such a click changes no
\* role.
C25_TwoPerSecond ==
    step = "RolebuttonClick" =>
        /\ lastClick.reply = "Slow Down!" => lastClick.prior >= 2
        /\ lastClick.reply = "Slow Down!" => ~lastClick.changed

\* ------------------------------------------------ claims: quick-action buttons
\* C26: each quick action is carried out at most once.
C26_AtMostOnce ==
    \A a \in QuickActions : performed[a] <= 1

\* ---------------------------------------------------------- claims: reports
\* C27: a /report that finds the reports enabled and the configured channel
\* gone answers with the setup notice, leaves the configuration disabled in
\* the table and in the cache, and raises nothing.
C27_MissingChannelDisables ==
    (step = "Report" /\ repCall.enabled /\ ~repCall.resolved /\ repReply # "Huh?")
    => /\ repReply = "Oops! (not enabled)"
       /\ ~repRow.is_enabled
       /\ ~repCached.is_enabled
       /\ repError = "none"

\* -------------------------------------------------- claims: developer tools
\* C28: output of under 2000 characters for a channel is delivered as exactly
\* one message, the one with the trash button.
C28_ShortOutputOneMessage ==
    (step = "SendPaginated" /\ devInput.len < 2000 /\ devInput.channel)
    => devSent = <<"trash">>

\* ------------------------------------------------------ claims: diff helper
\* C29: a list-of-flags attribute is left out of the diff exactly when the old
\* and the new list hold the same set of values.
C29_OmittedIffSameSet ==
    step = "GetDiff" =>
        (diffRendered <=>
            {diffInput.old[i] : i \in 1 .. Len(diffInput.old)}
                # {diffInput.new[i] : i \in 1 .. Len(diffInput.new)})


\* ------------------------------------------------------- claims: calculator
\* C30: right after an evaluation that produced an answer a, whatever a is, a
\* digit key makes the message read "Ans+<digit>" and an operator key makes it
\* read "Ans<operator>"; and the next evaluation, the keys pressed since being
\* AddBufButtons only, hands the Solver a followed by those keys.
C30_ChainsOffAnswer ==
    [][ /\ (calcChain # NoAns /\ calcClearNext /\ step' = "AddBuf") =>
            calcScreen' = IF calcKey' \in Operators
                          THEN <<"Ans", calcKey'>>
                          ELSE <<"Ans", "+", calcKey'>>
        /\ (calcChain # NoAns /\ ~calcClearNext /\ step' = "EvalBuf") =>
            calcExpr' = Str(calcChain) \o calcBuf ]_vars


\* ------------------------------------------------------ claims: tic tac toe
\* Some row, column or diagonal of the board holds the mark v in every cell.
FullLine(board, v) ==
    \/ \E y \in 1 .. Len(board) : \A x \in 1 .. Len(board) : board[y][x] = v
    \/ \E x \in 1 .. Len(board) : \A y \in 1 .. Len(board) : board[y][x] = v
    \/ \A i \in 1 .. Len(board) : board[i][i] = v
    \/ \A i \in 1 .. Len(board) : board[i][Len(board) + 1 - i] = v

\* Every row, column and diagonal holds a mark of each player.
AllLinesMixed(board) ==
    LET n == Len(board)
        both(cells) == /\ \E c \in cells : board[c[1]][c[2]] = -1
                       /\ \E c \in cells : board[c[1]][c[2]] = 1
    IN  /\ \A y \in 1 .. n : both({<<y, x>> : x \in 1 .. n})
        /\ \A x \in 1 .. n : both({<<y, x>> : y \in 1 .. n})
        /\ both({<<i, i>> : i \in 1 .. n})
        /\ both({<<i, n + 1 - i>> : i \in 1 .. n})

\* C31: on boards of size 3, 4 and 5, X is declared winner exactly when some
\* line holds only X marks, O exactly when some line holds only O marks, a tie
\* only when every line holds marks of both, and a full board has been
\* declared won or tied; once a result is declared every button is disabled.
C31_ResultMatchesBoard ==
    /\ tttSize \in BoardSizes
    /\ (tttWinner = PLAYER_X) <=> FullLine(tttBoard, -1)
    /\ (tttWinner = PLAYER_O) <=> FullLine(tttBoard, 1)
    /\ (tttWinner = TIE) => AllLinesMixed(tttBoard)
    /\ (Marked(tttBoard) = Cells(tttSize)) => tttWinner # NoWinner
    /\ (tttWinner # NoWinner) => tttDisabled = Cells(tttSize)

\* A size-5 game has just been declared a tie on a full board.
C31_Witness ==
    /\ step = "TicTacToeClick"
    /\ tttSize = 5
    /\ tttWinner = TIE
    /\ Marked(tttBoard) = Cells(tttSize)


\* ------------------------------------------- claims: user logger, the queue
\* The embed with this serial number is in some channel's list.
Queued(id) ==
    \E c \in LogChannels : \E i \in 1 .. Len(qQueue[c]) : qQueue[c][i].id = id

\* C32: every embed log() appended is part of exactly one create_message
\* call: never of two, and of one once it has left its channel's list.
C32_ExactlyOneSendAttempt ==
    \A id \in 1 .. qAccepted :
        /\ qAttempts[id] <= 1
        /\ ~Queued(id) => qAttempts[id] = 1

\* C33: the flush loop never ends, whatever log() adds to the queue while a
\* pass is suspended in a send and whether or not a send fails.
C33_LoopNeverEnds ==
    qLoop.pc # "ended"


\* ------------------------------------------ claims: user logger, the freezes
\* C34: a guild is frozen for as long as some operation has frozen it and has
\* not yet unfrozen it itself, the 5 seconds of its unfreeze included.
C34_FrozenWhileReliedOn ==
    \A o \in FreezeOps :
        fzOps[o].pc \in {"frozen", "sleep"} => fzOps[o].guild \in fzGuilds


\* ------------------------------------------- claims: timeout, failing edits
\* The pending timeout_extend timers of the member that carry this expiry.
ExtendTimers(pending, expiry) ==
    {t \in pending : t.event = TIMEOUT_EXTEND /\ t.user = Member /\ t.notes = expiry}

\* C35: when the member.edit that follows a create_timer fails, in the
\* timeout command, in timeout_extend or in reapply_timeout_extensions, no
\* timeout_extend timer with the expiry of that operation is left pending.
C35_NoTimerAfterFailedEdit ==
    [][ /\ (tcmd.pc = "edit" /\ step' = "TimeoutFailed") =>
            ExtendTimers(timers', tcmd.duration) = {}
        /\ (ext.pc = "edit" /\ step' = "ExtFailed") =>
            ExtendTimers(timers', ext.timer.notes) = {}
        /\ (rj.pc = "edit" /\ step' = "RjFailed") =>
            ExtendTimers(timers', rj.expiry) = {} ]_vars

\* ----------------------------------------------- claims: the pending flag
\* C36: the stash step of timeout_extend leaves the pending flag set and the
\* other flags as they are; the rejoin handler goes on to re-apply the
\* timeout whenever the pending flag is on the profile it fetched, whatever
\* else is; and when it clears the flag the other flags stay as they are.
C36_PendingFlagIndependent ==
    [][ /\ (ext.pc = "stash" /\ ext'.pc = "idle") =>
            /\ TIMEOUT_ON_JOIN \in dbFlags'
            /\ dbFlags' \ {TIMEOUT_ON_JOIN} = dbFlags \ {TIMEOUT_ON_JOIN}
        /\ (rj.pc = "fetched" /\ rj'.pc # "fetched" /\ TIMEOUT_ON_JOIN \in rj.flags) =>
            /\ rj'.pc = "apply"
            /\ TIMEOUT_ON_JOIN \notin dbFlags'
            /\ dbFlags' \ {TIMEOUT_ON_JOIN} = dbFlags \ {TIMEOUT_ON_JOIN} ]_vars


\* ------------------------------------------------------ claims: warn counter
\* C37: the stored counter is never negative, and as long as no remove_warn
\* or clear_warns was called it equals the number of warns that have written
\* their update, however the warn calls interleave.
C37_EveryWarnCounts ==
    /\ warnStored >= 0
    /\ unwarnsBegun = 0 => warnStored = warnsDone


\* ------------------------------------------------------- claims: tag edit
\* C38: the step that persists an edit leaves the tag's owner and aliases as
\* they were stored just before it, whatever transfer, alias or delalias
\* commands wrote while the modal was open; only the content changes.
C38_EditChangesContentOnly ==
    [][ \A t \in TagTasks :
          (tagTask[t].pc = "modal" /\ tagTask'[t].pc = "idle" /\ step' = "TagEdited") =>
              /\ tagStore'[tagTask[t].tag].exists
              /\ tagStore'[tagTask[t].tag].owner = tagStore[tagTask[t].tag].owner
              /\ tagStore'[tagTask[t].tag].aliases = tagStore[tagTask[t].tag].aliases ]_vars


\* ------------------------------------------------- claims: /reminder delete
\* C39: /reminder delete removes no timer but reminders of its invoker: a
\* tempban or timeout_extend timer stays, also when the id given is its id
\* and it is recorded for the invoker.
C39_OnlyOwnReminders ==
    [][ step' = "ReminderDel" =>
          \A t \in rdTimers \ rdTimers' :
              t.event = REMINDER /\ t.user = rdCall'.user ]_vars


\* --------------------------------------------------------- claims: /restore
\* C40: after a restore that went as far as pg_restore and did not close the
\* app, the cache is running and the scheduler was restarted by it, also when
\* the replay failed with ignore_errors set.
C40_CacheRunsAfterRestore ==
    (step = "RestoreDb" /\ rsReply # "no_valid_attachment" /\ botRunning) =>
        cacheRunning /\ rsCall.restarted

=============================================================================
